---- MODULE Spec2Model ----
(***************************************************************************)
(* drydock: the image resolver (resolver.go) and the bounded-concurrency   *)
(* scan orchestrator (scanner.go).                                         *)
(*                                                                         *)
(* Strings that the code takes apart (image URIs, repository resource      *)
(* names) are sequences of tokens.  A token is either one of the three     *)
(* separator characters "/", ":", "@" or an atom: a maximal run of         *)
(* characters that holds none of the three.  Two atoms are never adjacent. *)
(*   "H"          an atom matching [a-z0-9-]+-docker\.pkg\.dev             *)
(*   "sha256"     the atom sha256                                          *)
(*   "md5"        the atom md5                                             *)
(*   "Xa", "Xb",  atoms of exactly 64 hexadecimal characters              *)
(*   "Xc", "Xd",                                                           *)
(*   "Xe", "Xf"                                                            *)
(*   "x3"         an atom of fewer than 64 hexadecimal characters          *)
(*   any other    an ordinary name atom (project, repository, image, tag)  *)
(***************************************************************************)
EXTENDS Integers, Sequences, FiniteSets, TLC

\* ------------------------------------------------------------------ bounds
\* repoIt.Next() calls that return a repository or an error
MaxRepos == 2
\* images the registry holds that resolve to a target
MaxTargets == 3
\* largest value given to WithConcurrency
MaxConcurrency == 2

\* ------------------------------------------------------------ evaluation
\* The element of a one-element set.  Only({e(x) : x \in {v}}) is e(v) with
\* v evaluated once, before e: the form used below wherever a value computed
\* in one step of the code is read several times by the next.
Only(S) == CHOOSE x \in S : TRUE

\* ------------------------------------------------------------ Go's values
\* A Go nil pointer / the empty string a regexp group yields when unmatched.
Empty == <<>>

\* utils.IsZero on strings.
IsZero(v) == v = Empty

\* utils.ToPtr: nil for the zero value, a pointer to the value otherwise.
\* A pointer is modelled by the value it points to, nil by Empty.
ToPtr(v) == IF IsZero(v) THEN Empty ELSE v

\* error values: every error is a record of one shape.
\*   kind "nil"   no error
\*   kind "api"   an error returned by an external collaborator
\*   kind "wrap"  fmt.Errorf(msg ... %w, err): errs = <<err>>
\*   kind "text"  fmt.Errorf(msg ... %v, err): the cause is formatted, not wrapped
\*   kind "join"  errors.Join: errs = the non-nil arguments, in order
NilErr == [kind |-> "nil", msg |-> "", arg |-> <<>>, errs |-> <<>>]

ApiErr(op, arg) == [kind |-> "api", msg |-> op, arg |-> arg, errs |-> <<>>]

Errorf(msg, arg, err) == [kind |-> "wrap", msg |-> msg, arg |-> arg, errs |-> <<err>>]

ErrorfText(msg, arg) == [kind |-> "text", msg |-> msg, arg |-> arg, errs |-> <<>>]

\* errors.Join(a, b): nil when both are nil, else a join of the non-nil ones.
ErrorsJoin(a, b) ==
    LET kept == SelectSeq(<<a, b>>, LAMBDA e : e # NilErr)
    IN  IF kept = <<>> THEN NilErr
        ELSE [kind |-> "join", msg |-> "", arg |-> <<>>, errs |-> kept]

\* The errors of the tree of e (errors.Is / errors.As walk this tree).
RECURSIVE ErrTree(_)
ErrTree(e) ==
    IF e = NilErr THEN {}
    ELSE {e} \cup UNION {ErrTree(e.errs[i]) : i \in 1..Len(e.errs)}

\* ------------------------------------------------------- ParseArtifactURI
Hex64 == {"Xa", "Xb", "Xc", "Xd", "Xe", "Xf", "Xg", "Xh"}

\* Index of the first token of s at or after position i that is in stop,
\* Len(s) + 1 when there is none: the end of a greedy [^stop]+ run.
RECURSIVE RunEnd(_, _, _)
RunEnd(s, i, stop) ==
    IF i > Len(s) THEN i
    ELSE IF s[i] \in stop THEN i
    ELSE RunEnd(s, i + 1, stop)

Slice(s, i, j) == IF j < i THEN <<>> ELSE SubSeq(s, i, j)

\* compiledGarRegex on a token sequence, group by group.  Each group is a
\* greedy run that cannot be shortened (the token after it would have to be
\* one the run excludes), so the match is found without backtracking.
\*
\* The optional digest group and the end anchor, from position e5
\* (the first token after the image path or the tag): groups 5 and 6.
MatchDigest(uri, e4, e5) ==
    LET n   == Len(uri)
        tag == IF e5 > e4 THEN Slice(uri, e4 + 1, e5 - 1) ELSE Empty
    IN  IF e5 = n + 1 THEN <<tag, Empty>>
        ELSE IF /\ uri[e5] = "@"
                /\ n = e5 + 3
                /\ uri[e5 + 1] = "sha256"
                /\ uri[e5 + 2] = ":"
                /\ uri[e5 + 3] \in Hex64
        THEN <<tag, Slice(uri, e5 + 1, n)>>
        ELSE <<>>

\* The optional tag group (?::([^@]+))? from position e4, the first token
\* after the image path.
MatchTag(uri, e4) ==
    IF e4 <= Len(uri) /\ uri[e4] = ":"
    THEN Only({IF e5 > e4 + 1 THEN MatchDigest(uri, e4, e5) ELSE <<>> :
                 e5 \in {RunEnd(uri, e4 + 1, {"@"})}})
    ELSE MatchDigest(uri, e4, e4)

\* The image path ([^:@]+) from position p4.
MatchImage(uri, p4) ==
    Only({IF e4 > p4
          THEN Only({IF rest = <<>> THEN <<>> ELSE <<Slice(uri, p4, e4 - 1)>> \o rest :
                       rest \in {MatchTag(uri, e4)}})
          ELSE <<>> :
            e4 \in {RunEnd(uri, p4, {":", "@"})}})

\* A segment ([^/]+)/ from position p: the position after its "/" (0 for no
\* match).
MatchSegment(uri, p) ==
    Only({IF e > p /\ e <= Len(uri) THEN e + 1 ELSE 0 : e \in {RunEnd(uri, p, {"/"})}})

\* The match from the repository segment on, the project segment having
\* ended before p3.
MatchFrom(uri, p3) ==
    IF p3 = 0 THEN <<>>
    ELSE Only({IF p4 = 0 THEN <<>>
               ELSE Only({IF rest = <<>> THEN <<>>
                          ELSE << uri, <<uri[1]>>, Slice(uri, 3, p3 - 2),
                                  Slice(uri, p3, p4 - 2) >> \o rest :
                            rest \in {MatchImage(uri, p4)}}) :
                 p4 \in {MatchSegment(uri, p3)}})

\* compiledGarRegex.FindStringSubmatch: <<>> for no match, else the whole
\* match and the six groups (host, project, repository, image, tag, digest);
\* an unmatched optional group is the empty string.
GarMatch(uri) ==
    IF Len(uri) >= 2 /\ uri[1] = "H" /\ uri[2] = "/"
    THEN Only({MatchFrom(uri, p3) : p3 \in {MatchSegment(uri, 3)}})
    ELSE <<>>

ZeroArtifactReference ==
    [Host |-> Empty, ProjectID |-> Empty, RepositoryID |-> Empty,
     ImageName |-> Empty, Tag |-> Empty, Digest |-> Empty]

\* The ArtifactReference built from the groups of a match.
ReferenceOf(matches) ==
    [Host         |-> matches[2],
     ProjectID    |-> matches[3],
     RepositoryID |-> matches[4],
     ImageName    |-> matches[5],
     Tag          |-> ToPtr(matches[6]),
     Digest       |-> ToPtr(matches[7])]

\* ParseArtifactURI: [ref, err].
ParseArtifactURI(uri) ==
    Only({IF matches = <<>>
          THEN [ref |-> ZeroArtifactReference,
                err |-> ErrorfText("invalid GAR URI format", uri)]
          ELSE [ref |-> ReferenceOf(matches), err |-> NilErr] :
            matches \in {GarMatch(uri)}})

\* ------------------------------------------------ ArtifactReference.String
\* (variant for C18: the digest is appended after ":" like a tag)
StringDigestAsTag(a) ==
    a.Host \o <<"/">> \o a.ProjectID \o <<"/">> \o a.RepositoryID \o <<"/">> \o a.ImageName
      \o (IF a.Tag # Empty THEN <<":">> \o a.Tag ELSE <<>>)
      \o (IF a.Digest # Empty THEN <<":">> \o a.Digest ELSE <<>>)

\* ArtifactReference.String: host/project/repository/image[:tag][@digest].
String(a) ==
    a.Host \o <<"/">> \o a.ProjectID \o <<"/">> \o a.RepositoryID \o <<"/">> \o a.ImageName
      \o (IF a.Tag # Empty THEN <<":">> \o a.Tag ELSE <<>>)
      \o (IF a.Digest # Empty THEN <<"@">> \o a.Digest ELSE <<>>)

\* ------------------------------------------------------- selectBestDigest
\* MaxCandidates: digests considered per image during discovery.
MaxCandidates == 5

\* The zero candidateImage (time.Time{} precedes every listed update time).
ZeroCandidate == [Digest |-> Empty, Tags |-> <<>>, UpdateTime |-> 0, URI |-> Empty]

\* slices.Contains
Contains(s, x) == \E i \in 1..Len(s) : s[i] = x

\* (variant for C15: a "latest" candidate is returned only if none before it
\* is newer)
RECURSIVE SelectLoopLatestIfNewest(_, _, _)
SelectLoopLatestIfNewest(candidates, i, newest) ==
    IF i > Len(candidates) THEN newest
    ELSE LET c == candidates[i]
         IN  IF Contains(c.Tags, "latest") /\ c.UpdateTime >= newest.UpdateTime THEN c
             ELSE IF c.UpdateTime > newest.UpdateTime
                  THEN SelectLoopLatestIfNewest(candidates, i + 1, c)
                  ELSE SelectLoopLatestIfNewest(candidates, i + 1, newest)

\* (variant for C16: `!Before` in place of `After`, the last candidate wins ties)
RECURSIVE SelectLoopLastWinsTies(_, _, _)
SelectLoopLastWinsTies(candidates, i, newest) ==
    IF i > Len(candidates) THEN newest
    ELSE LET c == candidates[i]
         IN  IF Contains(c.Tags, "latest") THEN c
             ELSE IF c.UpdateTime >= newest.UpdateTime
                  THEN SelectLoopLastWinsTies(candidates, i + 1, c)
                  ELSE SelectLoopLastWinsTies(candidates, i + 1, newest)

\* The loop of selectBestDigest from candidate i on, newest being the
\* candidate tracked so far.
RECURSIVE SelectLoop(_, _, _)
SelectLoop(candidates, i, newest) ==
    IF i > Len(candidates) THEN newest
    ELSE LET c == candidates[i]
         IN  IF Contains(c.Tags, "latest") THEN c
             ELSE IF c.UpdateTime > newest.UpdateTime
                  THEN SelectLoop(candidates, i + 1, c)
                  ELSE SelectLoop(candidates, i + 1, newest)

selectBestDigest(candidates) ==
    IF Len(candidates) = 0 THEN ZeroCandidate
    ELSE SelectLoop(candidates, 1, candidates[1])

\* ----------------------------------------------------------- scanRepository
\* extractLocationAndRepository on a resource name split at "/".
extractLocationAndRepository(parts) ==
    IF Len(parts) >= 6
    THEN [location |-> parts[4], repository |-> parts[6]]
    ELSE [location |-> "", repository |-> ""]

\* A Go map read: the zero value for an absent key.
MapGet(m, k, zero) == IF k \in DOMAIN m THEN m[k] ELSE zero

MapPut(m, k, v) == [x \in DOMAIN m \cup {k} |-> IF x = k THEN v ELSE m[x]]

\* (variant for C13: the candidates are grouped by digest, not by image name)
CollectByDigest(m, img, ref) ==
    [grouped |-> MapPut(m.grouped, ref.Digest,
                        Append(MapGet(m.grouped, ref.Digest, <<>>),
                               [Digest     |-> ref.Digest,
                                Tags       |-> img.Tags,
                                UpdateTime |-> img.UpdateTime,
                                URI        |-> img.Uri])),
     counts  |-> MapPut(m.counts, ref.Digest, MapGet(m.counts, ref.Digest, 0) + 1)]

\* (variant for C25: `>` in place of `>=`, a full group takes one more)
CollectOneMore(m, img, ref) ==
    IF MapGet(m.counts, ref.ImageName, 0) > MaxCandidates
    THEN m
    ELSE [grouped |-> MapPut(m.grouped, ref.ImageName,
                             Append(MapGet(m.grouped, ref.ImageName, <<>>),
                                    [Digest     |-> ref.Digest,
                                     Tags       |-> img.Tags,
                                     UpdateTime |-> img.UpdateTime,
                                     URI        |-> img.Uri])),
          counts  |-> MapPut(m.counts, ref.ImageName,
                             MapGet(m.counts, ref.ImageName, 0) + 1)]

\* One entry of the listing that parsed to ref with a digest: it joins its
\* group unless the group is full.  m is [grouped, counts].
Collect(m, img, ref) ==
    IF MapGet(m.counts, ref.ImageName, 0) >= MaxCandidates
    THEN m
    ELSE [grouped |-> MapPut(m.grouped, ref.ImageName,
                             Append(MapGet(m.grouped, ref.ImageName, <<>>),
                                    [Digest     |-> ref.Digest,
                                     Tags       |-> img.Tags,
                                     UpdateTime |-> img.UpdateTime,
                                     URI        |-> img.Uri])),
          counts  |-> MapPut(m.counts, ref.ImageName,
                             MapGet(m.counts, ref.ImageName, 0) + 1)]

\* (variant for C14: an entry without a digest is not skipped, its tag stands
\* in for the digest)
RECURSIVE ListLoopTagAsDigest(_, _, _)
ListLoopTagAsDigest(listing, i, m) ==
    IF i > Len(listing.images)
    THEN IF listing.err = NilErr
         THEN [err |-> NilErr, grouped |-> m.grouped]
         ELSE [err |-> listing.err, grouped |-> <<>>]
    ELSE Only({IF parsed.err # NilErr
               THEN [err |-> ErrorfText("invalid image URI", listing.images[i].Uri),
                     grouped |-> <<>>]
               ELSE Only({ListLoopTagAsDigest(listing, i + 1, next) :
                            next \in {Collect(m, listing.images[i],
                                              IF parsed.ref.Digest = Empty
                                              THEN [parsed.ref EXCEPT !.Digest = parsed.ref.Tag]
                                              ELSE parsed.ref)}}) :
                 parsed \in {ParseArtifactURI(listing.images[i].Uri)}})

\* (variant for C26: an entry without a digest is skipped after it was
\* counted for its image name)
RECURSIVE ListLoopCountsSkipped(_, _, _)
ListLoopCountsSkipped(listing, i, m) ==
    IF i > Len(listing.images)
    THEN IF listing.err = NilErr
         THEN [err |-> NilErr, grouped |-> m.grouped]
         ELSE [err |-> listing.err, grouped |-> <<>>]
    ELSE Only({IF parsed.err # NilErr
               THEN [err |-> ErrorfText("invalid image URI", listing.images[i].Uri),
                     grouped |-> <<>>]
               ELSE IF parsed.ref.Digest = Empty
               THEN ListLoopCountsSkipped(listing, i + 1,
                        [m EXCEPT !.counts = MapPut(m.counts, parsed.ref.ImageName,
                                      MapGet(m.counts, parsed.ref.ImageName, 0) + 1)])
               ELSE Only({ListLoopCountsSkipped(listing, i + 1, next) :
                            next \in {Collect(m, listing.images[i], parsed.ref)}}) :
                 parsed \in {ParseArtifactURI(listing.images[i].Uri)}})

\* The listing loop of scanRepository from entry i on, m being
\* [grouped, counts].  A listing is [images, err]: the entries it.Next()
\* returns, then err (NilErr stands for iterator.Done).  Returns
\* [err, grouped].
RECURSIVE ListLoop(_, _, _)
ListLoop(listing, i, m) ==
    IF i > Len(listing.images)
    THEN IF listing.err = NilErr
         THEN [err |-> NilErr, grouped |-> m.grouped]
         ELSE [err |-> listing.err, grouped |-> <<>>]
    ELSE Only({IF parsed.err # NilErr
               THEN [err |-> ErrorfText("invalid image URI", listing.images[i].Uri),
                     grouped |-> <<>>]
               ELSE IF parsed.ref.Digest = Empty
               THEN ListLoop(listing, i + 1, m)
               ELSE Only({ListLoop(listing, i + 1, next) :
                            next \in {Collect(m, listing.images[i], parsed.ref)}}) :
                 parsed \in {ParseArtifactURI(listing.images[i].Uri)}})

\* The orders in which a range over a Go map with key set S may visit it.
RECURSIVE Orders(_)
Orders(S) ==
    IF S = {} THEN {<<>>}
    ELSE UNION {{<<k>> \o rest : rest \in Orders(S \ {k})} : k \in S}

\* The target of a selected candidate, <<>> when it has none.
TargetOf(best, location) ==
    IF best.Digest = Empty THEN <<>>
    ELSE Only({IF parsed.err # NilErr THEN <<>>
               ELSE << [Artifact |-> parsed.ref, URI |-> best.URI, Location |-> location] >> :
                 parsed \in {ParseArtifactURI(best.URI)}})

\* The selection loop of scanRepository over the groups in the order keys,
\* from key i on: the targets appended.
RECURSIVE GroupLoop(_, _, _, _)
GroupLoop(grouped, keys, i, location) ==
    IF i > Len(keys) THEN <<>>
    ELSE Only({TargetOf(best, location) : best \in {selectBestDigest(grouped[keys[i]])}})
           \o GroupLoop(grouped, keys, i + 1, location)

\* scanRepository: the set of [targets, err] it may return for a repository
\* (one per order of the map iteration).
scanRepository(repo) ==
    Only({IF listed.err # NilErr
          THEN {[targets |-> <<>>, err |-> listed.err]}
          ELSE {[targets |-> GroupLoop(listed.grouped, keys, 1,
                                       extractLocationAndRepository(repo.Name).location),
                 err |-> NilErr] :
                  keys \in Orders(DOMAIN listed.grouped)} :
            listed \in {ListLoop(repo.listing, 1, [grouped |-> <<>>, counts |-> <<>>])}})

\* ------------------------------------------------------ the registry listing
\* What ListRepositories / ListDockerImages may return.  The i-th repository
\* the listing returns is Repo(i, kind).
RepoId(i) == "r" \o ToString(i)

RepoName(i) == <<"projects", "p", "locations", "L", "repositories", RepoId(i)>>

DigestUri(i, image, hex) ==
    <<"H", "/", "p", "/", RepoId(i), "/", image, "@", "sha256", ":", hex>>

TagUri(i, image, tag) == <<"H", "/", "p", "/", RepoId(i), "/", image, ":", tag>>

\* A URI the registry should never return: a digest that is not sha256.
Md5Uri(i, image) == <<"H", "/", "p", "/", RepoId(i), "/", image, "@", "md5", ":", "x3">>

ListImagesErr(i) == ApiErr("ListDockerImages", RepoName(i))

ListReposErr == ApiErr("ListRepositories", <<>>)

\* Image listings, ordered by update time descending as the request asks.
ImagesOf(i, kind) ==
    CASE kind = "single" ->
           [images |-> << [Uri |-> DigestUri(i, "app", "Xa"), Tags |-> <<"v1">>, UpdateTime |-> 2] >>,
            err |-> NilErr]
      [] kind = "multi" ->
           [images |-> << [Uri |-> DigestUri(i, "app", "Xb"), Tags |-> <<"v2">>, UpdateTime |-> 3],
                          [Uri |-> DigestUri(i, "app", "Xa"), Tags |-> <<"v1", "latest">>, UpdateTime |-> 2],
                          [Uri |-> TagUri(i, "web", "v1"), Tags |-> <<"v1">>, UpdateTime |-> 2],
                          [Uri |-> DigestUri(i, "web", "Xc"), Tags |-> <<>>, UpdateTime |-> 1] >>,
            err |-> NilErr]
      [] kind = "broken" ->
           [images |-> <<>>, err |-> ListImagesErr(i)]
      [] kind = "deep" ->
           [images |-> << [Uri |-> DigestUri(i, "app", "Xf"), Tags |-> <<"v6">>, UpdateTime |-> 6],
                          [Uri |-> DigestUri(i, "app", "Xe"), Tags |-> <<"v5">>, UpdateTime |-> 5],
                          [Uri |-> DigestUri(i, "app", "Xd"), Tags |-> <<"v4">>, UpdateTime |-> 4],
                          [Uri |-> DigestUri(i, "app", "Xc"), Tags |-> <<"v3">>, UpdateTime |-> 3],
                          [Uri |-> DigestUri(i, "app", "Xb"), Tags |-> <<"v2">>, UpdateTime |-> 2],
                          [Uri |-> DigestUri(i, "app", "Xa"), Tags |-> <<"v1", "latest">>, UpdateTime |-> 1] >>,
            err |-> NilErr]
      [] kind = "invalid" ->
           [images |-> << [Uri |-> DigestUri(i, "app", "Xa"), Tags |-> <<"v2">>, UpdateTime |-> 2],
                          [Uri |-> Md5Uri(i, "web"), Tags |-> <<"v1">>, UpdateTime |-> 1] >>,
            err |-> NilErr]
      [] kind = "tagonly" ->
           [images |-> << [Uri |-> TagUri(i, "web", "latest"), Tags |-> <<"latest">>, UpdateTime |-> 1] >>,
            err |-> NilErr]
      [] OTHER ->
           [images |-> <<>>, err |-> NilErr]

Repo(i, kind) ==
    [Name    |-> RepoName(i),
     Format  |-> IF kind = "other" THEN "MAVEN" ELSE "DOCKER",
     listing |-> ImagesOf(i, kind)]

RepoKinds == {"other", "broken", "single", "multi"}

\* The repositories met when the resolver is examined on its own: also a
\* listing longer than MaxCandidates, one with an unparsable URI and one
\* whose only entry has no digest.
ResolverKinds == RepoKinds \cup {"deep", "invalid", "tagonly"}

\* The zero ImageTarget.
ZeroTarget == [Artifact |-> ZeroArtifactReference, URI |-> Empty, Location |-> ""]

\* ------------------------------------------------------------------ state
VARIABLES
    concurrency,  \* Scanner.concurrency (uint8)
    pc,           \* where Scan is: "range" (in the range loop, control may be
                  \* in the resolver), "addError", "addErrorLocked", "acquire",
                  \* "wait", "export", "report", "done"; "caller" when the
                  \* sequence is consumed by some other range loop; "call"
                  \* when one function is called on its own
    rpc,          \* where AllLatestImages is: "next" (about to call
                  \* repoIt.Next), "scan" (in scanRepository for the
                  \* repository just fetched), "yielded" (suspended in
                  \* yield), "returned"
    resume,       \* where AllLatestImages goes on when yield returns true:
                  \* "targets", "next" or "returned"
    item,         \* the (ImageTarget, error) pair of the current yield
    buffer,       \* targets of the current repository not yet yielded
    fetchLog,     \* what each repoIt.Next() call returned, in order
    yielded,      \* every pair yielded so far, in order
    stopped,      \* TRUE once a yield has returned false
    count,        \* Scan's count
    sem,          \* number of tokens in the channel sem
    wg,           \* the WaitGroup counter
    mu,           \* holder of collector.mu: Free, Main or a worker's index
    results,      \* collector.results
    errs,         \* collector.errs
    pending,      \* the error Scan is passing to collector.addError
    workers,      \* one record per goroutine started, in dispatch order
    exportCalls,  \* the argument of every Export call, in order
    exportErr,    \* what Export returned
    ret,          \* what Scan returned
    call,         \* a function called on its own: [fn, arg] (NoCall in a scan)
    got           \* what that call has returned so far (<<>> before it returns)

vars == << concurrency, pc, rpc, resume, item, buffer, fetchLog, yielded, stopped,
           count, sem, wg, mu, results, errs, pending, workers, exportCalls,
           exportErr, ret, call, got >>

resolverVars == << rpc, resume, item, buffer, fetchLog, yielded, stopped >>
scanVars == << concurrency, pc, count, sem, wg, mu, results, errs, pending,
               workers, exportCalls, exportErr, ret >>
callVars == << call, got >>

\* No function is called on its own: the program is running a scan.
NoCall == [fn |-> "", arg |-> <<>>]

Free == -1
Main == 0

Workers == 1..Len(workers)

InitResolver ==
    /\ rpc = "next"
    /\ resume = "next"
    /\ item = [target |-> ZeroTarget, err |-> NilErr]
    /\ buffer = <<>>
    /\ fetchLog = <<>>
    /\ yielded = <<>>
    /\ stopped = FALSE

InitCollector ==
    /\ count = 0
    /\ sem = 0
    /\ wg = 0
    /\ mu = Free
    /\ results = <<>>
    /\ errs = NilErr
    /\ pending = NilErr
    /\ workers = <<>>
    /\ exportCalls = <<>>
    /\ exportErr = NilErr
    /\ ret = NilErr

\* A Scanner built with WithConcurrency(c), inside Scan at the range loop.
Init ==
    /\ concurrency \in 0..MaxConcurrency
    /\ pc = "range"
    /\ InitResolver
    /\ InitCollector
    /\ call = NoCall
    /\ got = <<>>

\* -------------------------------------------------------- AllLatestImages
\* yield(target, err): the sequence suspends with the pair handed over.
Yield(target, err, after) ==
    /\ item' = [target |-> target, err |-> err]
    /\ yielded' = Append(yielded, [target |-> target, err |-> err])
    /\ rpc' = "yielded"
    /\ resume' = after

\* The loop over the targets of one repository, entered with targets ts.
YieldTargets(ts) ==
    IF ts = <<>>
    THEN /\ rpc' = "next"
         /\ buffer' = <<>>
         /\ UNCHANGED << item, yielded, resume >>
    ELSE /\ Yield(Head(ts), NilErr, "targets")
         /\ buffer' = Tail(ts)

\* repoIt.Next() returns iterator.Done: the sequence ends.
NextDone ==
    /\ rpc = "next"
    /\ fetchLog' = Append(fetchLog, "done")
    /\ rpc' = "returned"
    /\ UNCHANGED << resume, item, buffer, yielded, stopped >>
    /\ UNCHANGED scanVars
    /\ UNCHANGED callVars

\* (variant for C10: `continue` in place of the `return` after the yield)
AfterListErrorContinue == "next"

\* Where AllLatestImages goes on after the yield of a listing error.
AfterListError == "returned"

\* repoIt.Next() returns an error: it is yielded, then the sequence ends.
NextError ==
    /\ rpc = "next"
    /\ Len(fetchLog) < MaxRepos
    /\ fetchLog' = Append(fetchLog, "error")
    /\ Yield(ZeroTarget, Errorf("failed to list repositories", <<>>, ListReposErr),
             AfterListError)
    /\ UNCHANGED << buffer, stopped >>
    /\ UNCHANGED scanVars
    /\ UNCHANGED callVars

\* The targets yielded so far.
TargetsYielded == SelectSeq(yielded, LAMBDA y : y.err = NilErr)

\* The errors yielded so far.
ErrorsYielded == SelectSeq(yielded, LAMBDA y : y.err # NilErr)

\* (variant for C11: `return` in place of the `continue` after the yield)
AfterScanErrorReturn == "returned"

\* Where AllLatestImages goes on after the yield of a repository's scan error.
AfterScanError == "next"

\* repoIt.Next() returns a repository: skipped unless DOCKER, else
\* scanRepository is entered, where AllLatestImages waits for the registry
\* while the goroutines started for earlier targets run.
NextRepo(kind) ==
    /\ rpc = "next"
    /\ Len(fetchLog) < MaxRepos
    /\ \A out \in scanRepository(Repo(Len(fetchLog) + 1, kind)) :
          Len(TargetsYielded) + Len(out.targets) <= MaxTargets
    /\ fetchLog' = Append(fetchLog, kind)
    /\ rpc' = IF Repo(Len(fetchLog) + 1, kind).Format # "DOCKER" THEN "next" ELSE "scan"
    /\ UNCHANGED << resume, item, buffer, yielded, stopped >>
    /\ UNCHANGED scanVars
    /\ UNCHANGED callVars

\* scanRepository returns for the repository just fetched: its error or its
\* first target is yielded; with no target the loop goes to the next fetch.
ScanRepositoryReturns ==
    /\ rpc = "scan"
    /\ LET repo == Repo(Len(fetchLog), fetchLog[Len(fetchLog)])
       IN  \E out \in scanRepository(repo) :
              IF out.err # NilErr
              THEN /\ Yield(ZeroTarget, Errorf("failed to scan repo", repo.Name, out.err),
                              AfterScanError)
                   /\ UNCHANGED buffer
              ELSE YieldTargets(out.targets)
    /\ UNCHANGED << fetchLog, stopped >>
    /\ UNCHANGED scanVars
    /\ UNCHANGED callVars

\* (variant for C12: what yield returns is not looked at)
YieldReturnsGoesOn(cont) ==
    /\ stopped' = (stopped \/ ~cont)
    /\ UNCHANGED fetchLog
    /\ CASE resume = "targets"  -> YieldTargets(buffer)
         [] resume = "next"     -> /\ rpc' = "next"
                                   /\ UNCHANGED << resume, item, buffer, yielded >>
         [] OTHER               -> /\ rpc' = "returned"
                                   /\ UNCHANGED << resume, item, buffer, yielded >>

\* yield returns cont to AllLatestImages, which runs on to its next yield,
\* to its next repoIt.Next() call, or returns.
YieldReturns(cont) ==
    IF ~cont
    THEN /\ rpc' = "returned"
         /\ stopped' = TRUE
         /\ UNCHANGED << resume, item, buffer, fetchLog, yielded >>
    ELSE /\ UNCHANGED << fetchLog, stopped >>
         /\ CASE resume = "targets"  -> YieldTargets(buffer)
              [] resume = "next"     -> /\ rpc' = "next"
                                        /\ UNCHANGED << resume, item, buffer, yielded >>
              [] OTHER               -> /\ rpc' = "returned"
                                        /\ UNCHANGED << resume, item, buffer, yielded >>

\* A range loop other than Scan's: its body runs and continues or breaks.
Consume(cont) ==
    /\ pc = "caller"
    /\ rpc = "yielded"
    /\ YieldReturns(cont)
    /\ UNCHANGED scanVars
    /\ UNCHANGED callVars

\* -------------------------------------------------------------- scanCollector
\* (variant for C6: the slice is replaced, not appended to)
addResultOverwrite(rs, res) == <<res>>

\* (variant for C30: the newest result is put first)
addResultPrepend(rs, res) == <<res>> \o rs

\* collector.addResult / addError, inside the critical section.
addResult(rs, res) == Append(rs, res)

\* (variant for C27: a Lock that never blocks)
CanLockAlways(m) == TRUE

\* c.mu.Lock() can return: the mutex m is held by nobody.
CanLock(m) == m = Free

addError(es, err) == ErrorsJoin(es, err)

\* ------------------------------------------------------------------- Scan
\* (variant for C1: a send that never blocks)
CanSendUnbounded(n, capacity) == TRUE

\* (variant for C28: the send proceeds also when the channel is full)
CanSendOneMore(n, capacity) == n <= capacity

\* A send on the buffered channel sem can proceed (capacity = concurrency;
\* nothing ever receives from sem except a worker releasing its token).
CanSend(n, capacity) == n < capacity

\* (variant for C2: a Wait that does not wait)
WaitReturnsAtOnce(n) == TRUE

\* wg.Wait() can return.
WaitReturns(n) == n = 0

\* The body of Scan's range loop starts on the yielded pair: an error goes
\* to collector.addError, a target is counted and waits for a token.
ScanBody ==
    /\ pc = "range"
    /\ rpc = "yielded"
    /\ IF item.err # NilErr
       THEN /\ pending' = Errorf("resolving image stream", <<>>, item.err)
            /\ pc' = "addError"
            /\ UNCHANGED count
       ELSE /\ count' = count + 1
            /\ pc' = "acquire"
            /\ UNCHANGED pending
    /\ UNCHANGED << concurrency, sem, wg, mu, results, errs, workers, exportCalls,
                    exportErr, ret >>
    /\ UNCHANGED resolverVars
    /\ UNCHANGED callVars

\* collector.addError called by Scan: c.mu.Lock().
ScanLock ==
    /\ pc = "addError"
    /\ CanLock(mu)
    /\ mu' = Main
    /\ pc' = "addErrorLocked"
    /\ UNCHANGED << concurrency, count, sem, wg, results, errs, pending, workers,
                    exportCalls, exportErr, ret >>
    /\ UNCHANGED resolverVars
    /\ UNCHANGED callVars

\* (variant for C9: the `continue` after addError is missing, so the error
\* item goes on to be counted and dispatched)
ScanAddErrorFallsThrough ==
    /\ pc = "addErrorLocked"
    /\ errs' = addError(errs, pending)
    /\ mu' = Free
    /\ count' = count + 1
    /\ pc' = "acquire"
    /\ UNCHANGED << concurrency, sem, wg, results, pending, workers,
                    exportCalls, exportErr, ret >>
    /\ UNCHANGED resolverVars
    /\ UNCHANGED callVars

\* The join, the deferred Unlock, then `continue`: yield returns true.
ScanAddError ==
    /\ pc = "addErrorLocked"
    /\ errs' = addError(errs, pending)
    /\ mu' = Free
    /\ pc' = "range"
    /\ YieldReturns(TRUE)
    /\ UNCHANGED << concurrency, count, sem, wg, results, pending, workers,
                    exportCalls, exportErr, ret >>
    /\ UNCHANGED callVars

\* sem <- struct{}{}, wg.Add(1), go func(target); the body ends and yield
\* returns true.
Dispatch ==
    /\ pc = "acquire"
    /\ CanSend(sem, concurrency)
    /\ sem' = sem + 1
    /\ wg' = wg + 1
    /\ workers' = Append(workers, [t |-> item.target, pc |-> "analyze", err |-> NilErr])
    /\ pc' = "range"
    /\ YieldReturns(TRUE)
    /\ UNCHANGED << concurrency, count, mu, results, errs, pending, exportCalls,
                    exportErr, ret >>
    /\ UNCHANGED callVars

\* The range loop ends when the sequence function returns.
RangeEnds ==
    /\ pc = "range"
    /\ rpc = "returned"
    /\ pc' = "wait"
    /\ UNCHANGED << concurrency, count, sem, wg, mu, results, errs, pending, workers,
                    exportCalls, exportErr, ret >>
    /\ UNCHANGED resolverVars
    /\ UNCHANGED callVars

\* wg.Wait()
Wait ==
    /\ pc = "wait"
    /\ WaitReturns(wg)
    /\ pc' = "export"
    /\ UNCHANGED << concurrency, count, sem, wg, mu, results, errs, pending, workers,
                    exportCalls, exportErr, ret >>
    /\ UNCHANGED resolverVars
    /\ UNCHANGED callVars

\* (variant for C5: results are exported only from a scan without errors)
ShouldExportClean(rs, es) == Len(rs) > 0 /\ es = NilErr

\* (variant for C8: Export is called whatever the collection holds)
ShouldExportAlways(rs, es) == TRUE

\* Scan hands the results to the exporter.
ShouldExport(rs, es) == Len(rs) > 0

ExportFailure == ApiErr("Export", <<>>)

\* What Scan returns, given the collector and what Export returned (NilErr
\* also when Export was not called).
ScanReturn(rs, es, eerr) ==
    IF ShouldExport(rs, es) /\ eerr # NilErr
    THEN Errorf("failed to export results", <<>>, eerr)
    ELSE IF es # NilErr
    THEN Errorf("scan completed with partial errors", <<>>, es)
    ELSE NilErr

\* Step 3 of Scan: Export, and the return when it fails.
Export ==
    /\ pc = "export"
    /\ IF ShouldExport(results, errs)
       THEN /\ exportCalls' = Append(exportCalls, results)
            /\ \E eerr \in {NilErr, ExportFailure} :
                 /\ exportErr' = eerr
                 /\ IF eerr # NilErr
                    THEN /\ ret' = ScanReturn(results, errs, eerr)
                         /\ pc' = "done"
                    ELSE /\ pc' = "report"
                         /\ UNCHANGED ret
       ELSE /\ pc' = "report"
            /\ UNCHANGED << exportCalls, exportErr, ret >>
    /\ UNCHANGED << concurrency, count, sem, wg, mu, results, errs, pending, workers >>
    /\ UNCHANGED resolverVars
    /\ UNCHANGED callVars

\* Step 4 of Scan: the partial errors, or nil.
Report ==
    /\ pc = "report"
    /\ ret' = ScanReturn(results, errs, exportErr)
    /\ pc' = "done"
    /\ UNCHANGED << concurrency, count, sem, wg, mu, results, errs, pending, workers,
                    exportCalls, exportErr >>
    /\ UNCHANGED resolverVars
    /\ UNCHANGED callVars

\* ------------------------------------------------------------ the workers
SetWorker(w, phase, err) ==
    workers' = [workers EXCEPT ![w] = [t |-> @.t, pc |-> phase, err |-> err]]

AnalyzeFailure(t) == Errorf("failed to list occurrences", <<>>, ApiErr("ListOccurrences", t.URI))

\* The AnalyzeResult of a target.
AnalyzeResult(t) == [Artifact |-> t.Artifact]

\* s.analyzer.Analyze returns in worker w, with a result or an error;
\* analyzeTarget goes on to the collector.
AnalyzeReturns(w) ==
    /\ workers[w].pc = "analyze"
    /\ \E err \in {NilErr, AnalyzeFailure(workers[w].t)} : SetWorker(w, "add", err)
    /\ UNCHANGED << concurrency, pc, count, sem, wg, mu, results, errs, pending,
                    exportCalls, exportErr, ret >>
    /\ UNCHANGED resolverVars
    /\ UNCHANGED callVars

\* context.Canceled
CtxCanceled == ApiErr("context canceled", <<>>)

\* What Analyze returns when its call observes the cancelled context.
AnalyzeCancelledError == Errorf("failed to list occurrences", <<>>, CtxCanceled)

\* The context is cancelled and the Analyze call in flight in worker w
\* observes it: Analyze returns the context's error.
AnalyzeCancelled(w) ==
    /\ workers[w].pc = "analyze"
    /\ SetWorker(w, "add", AnalyzeCancelledError)
    /\ UNCHANGED << concurrency, pc, count, sem, wg, mu, results, errs, pending,
                    exportCalls, exportErr, ret >>
    /\ UNCHANGED resolverVars
    /\ UNCHANGED callVars

\* c.mu.Lock() in addResult / addError.
WorkerLock(w) ==
    /\ workers[w].pc = "add"
    /\ CanLock(mu)
    /\ mu' = w
    /\ SetWorker(w, "locked", workers[w].err)
    /\ UNCHANGED << concurrency, pc, count, sem, wg, results, errs, pending,
                    exportCalls, exportErr, ret >>
    /\ UNCHANGED resolverVars
    /\ UNCHANGED callVars

\* (variant for C7: the `return` after addError is missing)
analyzeTargetNoReturn(rs, es, t, err) ==
    [results |-> addResult(rs, AnalyzeResult(t)),
     errs    |-> IF err # NilErr THEN addError(es, Errorf("analyzing", t.URI, err)) ELSE es]

\* (variant for C20: a failed analysis is logged and not recorded)
analyzeTargetDropsError(rs, es, t, err) ==
    IF err # NilErr
    THEN [results |-> rs, errs |-> es]
    ELSE [results |-> addResult(rs, AnalyzeResult(t)), errs |-> es]

\* What analyzeTarget leaves in the collector: [results, errs].
analyzeTarget(rs, es, t, err) ==
    IF err # NilErr
    THEN [results |-> rs, errs |-> addError(es, Errorf("analyzing", t.URI, err))]
    ELSE [results |-> addResult(rs, AnalyzeResult(t)), errs |-> es]

\* The append or join, and the deferred Unlock.
WorkerAdd(w) ==
    /\ workers[w].pc = "locked"
    /\ LET after == analyzeTarget(results, errs, workers[w].t, workers[w].err)
       IN  /\ results' = after.results
           /\ errs' = after.errs
    /\ mu' = Free
    /\ SetWorker(w, "release", workers[w].err)
    /\ UNCHANGED << concurrency, pc, count, sem, wg, pending, exportCalls, exportErr, ret >>
    /\ UNCHANGED resolverVars
    /\ UNCHANGED callVars

\* (variant for C22: the token is given back only after a successful analysis)
WorkerReleaseOnSuccessOnly(w) ==
    /\ workers[w].pc = "release"
    /\ sem > 0
    /\ sem' = IF workers[w].err = NilErr THEN sem - 1 ELSE sem
    /\ SetWorker(w, "exit", workers[w].err)
    /\ UNCHANGED << concurrency, pc, count, wg, mu, results, errs, pending,
                    exportCalls, exportErr, ret >>
    /\ UNCHANGED resolverVars
    /\ UNCHANGED callVars

\* The goroutine's function has returned and its deferred calls run, last
\* deferred first: func() { <-sem }() gives the token back.
WorkerRelease(w) ==
    /\ workers[w].pc = "release"
    /\ sem > 0
    /\ sem' = sem - 1
    /\ SetWorker(w, "exit", workers[w].err)
    /\ UNCHANGED << concurrency, pc, count, wg, mu, results, errs, pending,
                    exportCalls, exportErr, ret >>
    /\ UNCHANGED resolverVars
    /\ UNCHANGED callVars

\* (variant for C29: wg.Done() is not called when the analysis failed)
WorkerDoneOnSuccessOnly(w) ==
    /\ workers[w].pc = "exit"
    /\ wg' = IF workers[w].err = NilErr THEN wg - 1 ELSE wg
    /\ SetWorker(w, "done", workers[w].err)
    /\ UNCHANGED << concurrency, pc, count, sem, mu, results, errs, pending,
                    exportCalls, exportErr, ret >>
    /\ UNCHANGED resolverVars
    /\ UNCHANGED callVars

\* The second deferred call, wg.Done(), and the goroutine ends.  Scan and
\* the other goroutines may run between the two deferred calls.
WorkerDone(w) ==
    /\ workers[w].pc = "exit"
    /\ wg' = wg - 1
    /\ SetWorker(w, "done", workers[w].err)
    /\ UNCHANGED << concurrency, pc, count, sem, mu, results, errs, pending,
                    exportCalls, exportErr, ret >>
    /\ UNCHANGED resolverVars
    /\ UNCHANGED callVars

\* ------------------------------------------------- the sequential loop
\* The loop of executeScan over the pairs the resolver yields; outcomes[k] is
\* what Analyze returns for the k-th target.  acc is
\* [results, scanErrs, count].
RECURSIVE ExecuteScanLoop(_, _, _)
ExecuteScanLoop(items, outcomes, acc) ==
    IF items = <<>> THEN acc
    ELSE IF Head(items).err # NilErr
    THEN ExecuteScanLoop(Tail(items), outcomes,
             [acc EXCEPT !.scanErrs =
                 ErrorsJoin(@, Errorf("resolving image stream", <<>>, Head(items).err))])
    ELSE IF outcomes[acc.count + 1] # NilErr
    THEN ExecuteScanLoop(Tail(items), outcomes,
             [acc EXCEPT !.count = @ + 1,
                         !.scanErrs =
                 ErrorsJoin(@, Errorf("analyzing", Head(items).target.URI,
                                      outcomes[acc.count + 1]))])
    ELSE ExecuteScanLoop(Tail(items), outcomes,
             [acc EXCEPT !.count = @ + 1,
                         !.results = Append(@, AnalyzeResult(Head(items).target))])

\* executeScan up to its export step: [results, scanErrs, count].
executeScan(items, outcomes) ==
    ExecuteScanLoop(items, outcomes, [results |-> <<>>, scanErrs |-> NilErr, count |-> 0])

\* ---------------------------------------------------------- specifications
Next ==
    \/ NextDone
    \/ NextError
    \/ \E kind \in RepoKinds : NextRepo(kind)
    \/ ScanRepositoryReturns
    \/ ScanBody
    \/ ScanLock
    \/ ScanAddError
    \/ Dispatch
    \/ RangeEnds
    \/ Wait
    \/ Export
    \/ Report
    \/ \E w \in Workers : AnalyzeReturns(w)
    \/ \E w \in Workers : WorkerLock(w)
    \/ \E w \in Workers : WorkerAdd(w)
    \/ \E w \in Workers : WorkerRelease(w)
    \/ \E w \in Workers : WorkerDone(w)

Spec == Init /\ [][Next]_vars

\* Scan with its context cancelled at any moment, under a scheduler that
\* runs some runnable goroutine as long as there is one.  The registry holds
\* repositories of one image and repositories that fail to list.
FairKinds == {"single", "broken"}

NextFair ==
    \/ NextDone
    \/ NextError
    \/ \E kind \in FairKinds : NextRepo(kind)
    \/ ScanRepositoryReturns
    \/ ScanBody
    \/ ScanLock
    \/ ScanAddError
    \/ Dispatch
    \/ RangeEnds
    \/ Wait
    \/ Export
    \/ Report
    \/ \E w \in Workers : AnalyzeReturns(w)
    \/ \E w \in Workers : AnalyzeCancelled(w)
    \/ \E w \in Workers : WorkerLock(w)
    \/ \E w \in Workers : WorkerAdd(w)
    \/ \E w \in Workers : WorkerRelease(w)
    \/ \E w \in Workers : WorkerDone(w)

SpecFair == Init /\ [][NextFair]_vars /\ WF_vars(NextFair)

\* AllLatestImages consumed by an arbitrary range loop that may break.
InitCaller ==
    /\ concurrency = 0
    /\ pc = "caller"
    /\ InitResolver
    /\ InitCollector
    /\ call = NoCall
    /\ got = <<>>

NextCaller ==
    \/ NextDone
    \/ NextError
    \/ \E kind \in ResolverKinds : NextRepo(kind)
    \/ ScanRepositoryReturns
    \/ \E cont \in BOOLEAN : Consume(cont)

SpecResolver == InitCaller /\ [][NextCaller]_vars

\* ------------------------------------------- functions called on their own
\* Nothing but the call runs: the scanner and the resolver stay as built.
InitCall ==
    /\ concurrency = 0
    /\ pc = "call"
    /\ InitResolver
    /\ InitCollector
    /\ got = <<>>

\* longest candidate list given to selectBestDigest
MaxCandidateList == 3
\* update times are 1..MaxUpdateTime
MaxUpdateTime == 3

HexAt(i) == <<"Xa", "Xb", "Xc", "Xd", "Xe", "Xf", "Xg", "Xh">>[i]

TagLists == {<<>>, <<"v1">>, <<"latest">>, <<"v1", "latest">>}

\* The candidate lists of length n: the i-th has its own digest, any of the
\* tag lists and any update time.
CandidateLists(n) ==
    { [i \in 1..n |-> [Digest     |-> <<"sha256", ":", HexAt(i)>>,
                       Tags       |-> f[i][1],
                       UpdateTime |-> f[i][2],
                       URI        |-> DigestUri(1, "app", HexAt(i))]] :
        f \in [1..n -> TagLists \X (1..MaxUpdateTime)] }

InitSelect ==
    /\ InitCall
    /\ \E n \in 0..MaxCandidateList : \E cs \in CandidateLists(n) :
          call = [fn |-> "selectBestDigest", arg |-> cs]

\* selectBestDigest(candidates) returns.
CallSelect ==
    /\ call.fn = "selectBestDigest"
    /\ got = <<>>
    /\ got' = <<selectBestDigest(call.arg)>>
    /\ UNCHANGED << call, resolverVars, scanVars >>

NextSelect == CallSelect

SpecSelect == InitSelect /\ [][NextSelect]_vars

\* URIs given to ParseArtifactURI: a path of two to five segments (the host
\* right or wrong), then a tag part, then a digest part, each right, absent
\* or wrong in one way.
UriPaths ==
    { <<"H", "/", "p", "/", "r", "/", "a">>,
      <<"H", "/", "p", "/", "r", "/", "n", "/", "a">>,
      <<"H", "/", "p", "/", "a">>,
      <<"H", "/", "a">>,
      <<"gcr", "/", "p", "/", "r", "/", "a">> }

UriTagParts ==
    { <<>>, <<":", "v1">>, <<":">>, <<":", "Xa">>, <<":", "sha256", ":", "Xa">> }

UriDigestParts ==
    { <<>>,
      <<"@", "sha256", ":", "Xa">>,
      <<"@", "md5", ":", "Xa">>,
      <<"@", "md5", ":", "x3">>,
      <<"@", "sha256", ":", "x3">>,
      <<"@", "Xa">>,
      <<"@">>,
      <<"@", "sha256", ":", "Xa", ":", "v1">> }

Uris == {p \o t \o d : p \in UriPaths, t \in UriTagParts, d \in UriDigestParts}

\* ArtifactReferences given to String.
References ==
    [Host         : {<<"H">>},
     ProjectID    : {<<"p">>, <<"d", ":", "p">>},
     RepositoryID : {<<"r">>},
     ImageName    : {<<"a">>, <<"n", "/", "a">>},
     Tag          : {Empty, <<"v1">>, <<"latest">>},
     Digest       : {Empty, <<"sha256", ":", "Xa">>, <<"sha256", ":", "Xf">>}]

InitParse ==
    /\ InitCall
    /\ \/ \E uri \in Uris : call = [fn |-> "ParseArtifactURI", arg |-> uri]
       \/ \E a \in References : call = [fn |-> "String", arg |-> a]

\* ParseArtifactURI(uri) returns.
CallParse ==
    /\ call.fn = "ParseArtifactURI"
    /\ got = <<>>
    /\ got' = <<ParseArtifactURI(call.arg)>>
    /\ UNCHANGED << call, resolverVars, scanVars >>

\* a.String() returns.
CallString ==
    /\ call.fn = "String"
    /\ got = <<>>
    /\ got' = <<String(call.arg)>>
    /\ UNCHANGED << call, resolverVars, scanVars >>

\* The string a.String() returned is given to ParseArtifactURI.
ParseRendered ==
    /\ call.fn = "String"
    /\ Len(got) = 1
    /\ got' = Append(got, ParseArtifactURI(got[1]))
    /\ UNCHANGED << call, resolverVars, scanVars >>

NextParse ==
    \/ CallParse
    \/ CallString
    \/ ParseRendered

SpecParse == InitParse /\ [][NextParse]_vars

\* ------------------------------------------------- building the Scanner
\* NewScanner's default: concurrency: 5.
DefaultConcurrency == 5

\* the largest uint8
MaxUint8 == 255

\* uint8(n) of a uint64 n.
Uint8(n) == n % (MaxUint8 + 1)

\* The options applied to the scanner s.  Each returns [scanner, err].
WithProjectID(s, projectID) ==
    [scanner |-> [s EXCEPT !.projectID = projectID], err |-> NilErr]

\* The value is stored as given.
WithConcurrency(s, c) ==
    [scanner |-> [s EXCEPT !.concurrency = c], err |-> NilErr]

WithResolver(s, resolver) ==
    [scanner |-> [s EXCEPT !.resolver = resolver], err |-> NilErr]

WithAnalyzer(s, analyzer) ==
    [scanner |-> [s EXCEPT !.analyzer = analyzer], err |-> NilErr]

WithExporter(s, exporter) ==
    [scanner |-> [s EXCEPT !.exporter = exporter], err |-> NilErr]

WithClientOptions(s, opts) ==
    [scanner |-> [s EXCEPT !.clientOptions = opts], err |-> NilErr]

\* NewExporter(format, writer): [exporter, err].
NewExporter(format) ==
    IF format \in {"json", "csv", "tsv"}
    THEN [exporter |-> format, err |-> NilErr]
    ELSE [exporter |-> "", err |-> ErrorfText("unsupported output format", <<format>>)]

WithOutputFormat(s, format) ==
    LET made == NewExporter(format)
    IN  IF made.err # NilErr
        THEN [scanner |-> s,
              err |-> Errorf("failed to create exporter with format", <<format>>, made.err)]
        ELSE [scanner |-> [s EXCEPT !.exporter = made.exporter], err |-> NilErr]

\* opt(scanner) for the option o, a record of its name and its argument.
ApplyOption(s, o) ==
    CASE o.opt = "WithProjectID"     -> WithProjectID(s, o.projectID)
      [] o.opt = "WithConcurrency"   -> WithConcurrency(s, o.concurrency)
      [] o.opt = "WithResolver"      -> WithResolver(s, o.resolver)
      [] o.opt = "WithAnalyzer"      -> WithAnalyzer(s, o.analyzer)
      [] o.opt = "WithExporter"      -> WithExporter(s, o.exporter)
      [] o.opt = "WithClientOptions" -> WithClientOptions(s, o.opts)
      [] o.opt = "WithOutputFormat"  -> WithOutputFormat(s, o.format)

\* for _, opt := range opts: the first option that fails ends NewScanner.
RECURSIVE ApplyOptions(_, _)
ApplyOptions(s, opts) ==
    IF opts = <<>> THEN [scanner |-> s, err |-> NilErr]
    ELSE Only({ IF r.err # NilErr
                THEN [scanner |-> s,
                      err |-> Errorf("failed to apply scanner option", <<>>, r.err)]
                ELSE ApplyOptions(r.scanner, Tail(opts)) :
                r \in {ApplyOption(s, Head(opts))} })

\* utils.GetProjectID in the environment env: [projectID, err].
GetProjectID(env) ==
    IF env.project # ""
    THEN [projectID |-> env.project, err |-> NilErr]
    ELSE [projectID |-> "",
          err |-> ErrorfText("project ID not found in environment variables, credentials, or metadata server", <<>>)]

\* NewImageResolver / NewArtifactRegistryAnalyzer in the environment env:
\* the client of the service can be made or not.
NewImageResolver(env) ==
    IF env.resolver THEN [resolver |-> "default", err |-> NilErr]
    ELSE [resolver |-> "",
          err |-> Errorf("failed to create Artifact Registry client", <<>>,
                         ApiErr("artifactregistry.NewClient", <<>>))]

NewArtifactRegistryAnalyzer(env) ==
    IF env.analyzer THEN [analyzer |-> "default", err |-> NilErr]
    ELSE [analyzer |-> "",
          err |-> Errorf("failed to create Container Analysis client", <<>>,
                         ApiErr("containeranalysis.NewClient", <<>>))]

\* What NewScanner returns without a scanner.
NoScanner(err) == [scanner |-> Empty, err |-> err]

\* NewScanner after the options: the project ID from the environment when
\* none was given, the quota project added to the client options, then the
\* default resolver, analyzer and exporter where none was set.
FinishScanner(env, s) ==
    LET found == IF s.projectID = "" THEN GetProjectID(env)
                 ELSE [projectID |-> s.projectID, err |-> NilErr]
        named == [s EXCEPT !.projectID = found.projectID]
        ready == IF named.projectID # ""
                 THEN [named EXCEPT !.clientOptions =
                           Append(@, <<"WithQuotaProject", named.projectID>>)]
                 ELSE named
        res   == IF ready.resolver = "" THEN NewImageResolver(env)
                 ELSE [resolver |-> ready.resolver, err |-> NilErr]
        ana   == IF ready.analyzer = "" THEN NewArtifactRegistryAnalyzer(env)
                 ELSE [analyzer |-> ready.analyzer, err |-> NilErr]
        exp   == IF ready.exporter = "" THEN NewExporter("json")
                 ELSE [exporter |-> ready.exporter, err |-> NilErr]
    IN  IF found.err # NilErr
        THEN NoScanner(Errorf("project ID is required but was not provided and could not be determined",
                              <<>>, found.err))
        ELSE IF res.err # NilErr
        THEN NoScanner(Errorf("failed to create default image resolver", <<>>, res.err))
        ELSE IF ana.err # NilErr
        THEN NoScanner(Errorf("failed to create default analyzer", <<>>, ana.err))
        ELSE IF exp.err # NilErr
        THEN NoScanner(Errorf("failed to create default exporter", <<>>, exp.err))
        ELSE [scanner |-> [ready EXCEPT !.resolver = res.resolver,
                                        !.analyzer = ana.analyzer,
                                        !.exporter = exp.exporter],
              err     |-> NilErr]

\* NewScanner(ctx, location, opts...) in the environment env: the defaults,
\* the options in order, the default components.
NewScanner(env, location, opts) ==
    LET applied == ApplyOptions([location      |-> location,
                                 projectID     |-> "",
                                 concurrency   |-> DefaultConcurrency,
                                 resolver      |-> "",
                                 analyzer      |-> "",
                                 exporter      |-> "",
                                 clientOptions |-> <<>>], opts)
    IN  IF applied.err # NilErr THEN NoScanner(applied.err)
        ELSE FinishScanner(env, applied.scanner)

\* The error Sscanf returns for a text it cannot read as %d into a uint64.
SscanfErr(n) == ApiErr("fmt.Sscanf", <<n>>)

\* The function given to fs.Func("concurrency") and fs.Func("c"), called on
\* the text of the integer n: Sscanf of %d into a uint64 fails on a sign.
ConcurrencyFlag(cfg, n) ==
    IF n < 0 THEN [cfg |-> cfg, err |-> Errorf("invalid concurrency value", <<>>, SscanfErr(n))]
    ELSE IF n < 1 THEN [cfg |-> cfg, err |-> ErrorfText("concurrency must be at least 1", <<>>)]
    ELSE IF n > MaxUint8 THEN [cfg |-> cfg, err |-> ErrorfText("concurrency must be at most 255", <<>>)]
    ELSE [cfg |-> [cfg EXCEPT !.Concurrency = Uint8(n)], err |-> NilErr]

\* flag.ErrHelp
ErrHelp == ErrorfText("flag: help requested", <<>>)

\* One flag of the command line set on the Config: [name, value], and
\* [name, n] for -c followed by the text of the integer n.  An error
\* of a flag's function comes back from the flag package as a new error
\* whose text holds the value, the flag and the text of that error (%v).
SetFlag(cfg, f) ==
    CASE f.name = "h" -> [cfg |-> cfg, err |-> ErrHelp]
      [] f.name = "l" -> [cfg |-> [cfg EXCEPT !.Location = f.value], err |-> NilErr]
      [] f.name = "p" -> [cfg |-> [cfg EXCEPT !.ProjectID = f.value], err |-> NilErr]
      [] f.name = "c" ->
           Only({ IF r.err # NilErr
                  THEN [cfg |-> cfg,
                        err |-> ErrorfText("invalid value for flag", <<f.n, f.name, r.err>>)]
                  ELSE r :
                  r \in {ConcurrencyFlag(cfg, f.n)} })

\* fs.Parse(args): the flags in order; the first error ends the parse
\* (flag.ContinueOnError).
RECURSIVE ParseFlagSet(_, _)
ParseFlagSet(cfg, args) ==
    IF args = <<>> THEN [cfg |-> cfg, err |-> NilErr]
    ELSE Only({ IF r.err # NilErr THEN r ELSE ParseFlagSet(r.cfg, Tail(args)) :
                r \in {SetFlag(cfg, Head(args))} })

\* Config.Validate (the message is written here without its backquotes)
Validate(cfg) ==
    IF cfg.Location = ""
    THEN ErrorfText("flag -l, --location is required", <<>>)
    ELSE NilErr

\* parseFlags(args): no argument stands for -h; the Config starts with its
\* defaults; nil comes back with every error.
parseFlags(args) ==
    LET parsed == ParseFlagSet([ProjectID    |-> "",
                                Location     |-> "",
                                MinSeverity  |-> "HIGH",
                                FixableOnly  |-> FALSE,
                                OutputFormat |-> "json",
                                Concurrency  |-> DefaultConcurrency,
                                Debug        |-> FALSE],
                               IF Len(args) = 0 THEN <<[name |-> "h", value |-> ""]>> ELSE args)
    IN  IF parsed.err # NilErr THEN [cfg |-> Empty, err |-> parsed.err]
        ELSE IF Validate(parsed.cfg) # NilErr
        THEN [cfg |-> Empty, err |-> Errorf("configuration error", <<>>, Validate(parsed.cfg))]
        ELSE [cfg |-> parsed.cfg, err |-> NilErr]

\* The options run gives to NewScanner for the Config cfg.
ScannerOpts(cfg) ==
    (IF cfg.ProjectID # "" THEN <<[opt |-> "WithProjectID", projectID |-> cfg.ProjectID]>> ELSE <<>>)
      \o << [opt |-> "WithConcurrency", concurrency |-> cfg.Concurrency],
            [opt |-> "WithClientOptions",
             opts |-> IF cfg.ProjectID # "" THEN << <<"WithQuotaProject", cfg.ProjectID>> >>
                      ELSE <<>>],
            [opt |-> "WithOutputFormat", format |-> cfg.OutputFormat] >>

\* longest list of options / of flags
MaxOptions == 3

\* the values given to WithConcurrency (a uint8)
OptionValues == {0, 1, 2, DefaultConcurrency, MaxUint8 - 1, MaxUint8}

\* the integers written after -c / --concurrency
FlagValues == {-1, 0, 1, 2, MaxUint8, MaxUint8 + 1, MaxUint8 + 2}

\* the options a library caller gives ("" for a nil resolver, analyzer or
\* exporter)
Options ==
    {[opt |-> "WithConcurrency", concurrency |-> c] : c \in OptionValues}
        \cup {[opt |-> "WithProjectID", projectID |-> "p"],
              [opt |-> "WithResolver", resolver |-> "custom"],
              [opt |-> "WithResolver", resolver |-> ""],
              [opt |-> "WithAnalyzer", analyzer |-> "custom"],
              [opt |-> "WithAnalyzer", analyzer |-> ""],
              [opt |-> "WithExporter", exporter |-> "custom"],
              [opt |-> "WithExporter", exporter |-> ""],
              [opt |-> "WithClientOptions", opts |-> << <<"WithEndpoint", "e">> >>],
              [opt |-> "WithOutputFormat", format |-> "csv"],
              [opt |-> "WithOutputFormat", format |-> "xml"]}

\* the flags of a command line
Flags ==
    {[name |-> "c", n |-> n] : n \in FlagValues}
        \cup {[name |-> "l", value |-> "us"], [name |-> "p", value |-> "p"]}

\* The environment: the project ID it gives ("" for none), whether the
\* clients of the two services can be made.
Environments == [project : {"", "envp"}, resolver : BOOLEAN, analyzer : BOOLEAN]

SeqsUpTo(S, n) == UNION {[1..k -> S] : k \in 0..n}

InitConfig ==
    /\ InitCall
    /\ \E env \in Environments :
          \/ \E opts \in SeqsUpTo(Options, MaxOptions) :
                call = [fn |-> "NewScanner",
                        arg |-> [env |-> env, location |-> "us", opts |-> opts]]
          \/ \E args \in SeqsUpTo(Flags, MaxOptions) :
                call = [fn |-> "run", arg |-> [env |-> env, args |-> args]]

\* A library caller: NewScanner(ctx, location, opts...) returns.
CallNewScanner ==
    /\ call.fn = "NewScanner"
    /\ got = <<>>
    /\ got' = <<NewScanner(call.arg.env, call.arg.location, call.arg.opts)>>
    /\ UNCHANGED << call, resolverVars, scanVars >>

\* The command line: run calls parseFlags(args).
RunParseFlags ==
    /\ call.fn = "run"
    /\ got = <<>>
    /\ got' = <<parseFlags(call.arg.args)>>
    /\ UNCHANGED << call, resolverVars, scanVars >>

\* run, when parseFlags returned an error: nil for flag.ErrHelp, the error
\* otherwise; no scanner is built.
RunReturnsEarly ==
    /\ call.fn = "run"
    /\ Len(got) = 1
    /\ got[1].err # NilErr
    /\ got' = Append(got, NoScanner(IF ErrHelp \in ErrTree(got[1].err) THEN NilErr
                                    ELSE got[1].err))
    /\ UNCHANGED << call, resolverVars, scanVars >>

\* run, when parseFlags returned a Config: the scanner is built with
\* WithConcurrency(cfg.Concurrency) among its options.
RunNewScanner ==
    /\ call.fn = "run"
    /\ Len(got) = 1
    /\ got[1].err = NilErr
    /\ got' = Append(got,
                Only({ IF r.err # NilErr
                       THEN NoScanner(Errorf("failed to initialize scanner", <<>>, r.err))
                       ELSE r :
                       r \in {NewScanner(call.arg.env, got[1].cfg.Location,
                                         ScannerOpts(got[1].cfg))} }))
    /\ UNCHANGED << call, resolverVars, scanVars >>

NextConfig ==
    \/ CallNewScanner
    \/ RunParseFlags
    \/ RunReturnsEarly
    \/ RunNewScanner

SpecConfig == InitConfig /\ [][NextConfig]_vars

\* ---------------------------------------------------------- the analyzer
\* grafeaspb.Severity is an enum: 0 SEVERITY_UNSPECIFIED, 1 MINIMAL, 2 LOW,
\* 3 MEDIUM, 4 HIGH, 5 CRITICAL.
convertSeverity(sev) ==
    CASE sev = 1 -> "MINIMAL"
      [] sev = 2 -> "LOW"
      [] sev = 3 -> "MEDIUM"
      [] sev = 4 -> "HIGH"
      [] sev = 5 -> "CRITICAL"
      [] OTHER   -> "UNSPECIFIED"

\* The levels map of filterBySeverity.
SeverityLevel(sev) ==
    CASE sev = "MINIMAL"  -> 1
      [] sev = "LOW"      -> 2
      [] sev = "MEDIUM"   -> 3
      [] sev = "HIGH"     -> 4
      [] sev = "CRITICAL" -> 5
      [] OTHER            -> 0

\* schemas.Vulnerability{}
ZeroVulnerability ==
    [ID |-> "", Severity |-> "", Description |-> "", PackageType |-> "",
     PackageName |-> "", InstalledVersion |-> Empty, FixedVersion |-> ""]

\* What a call gave: its values, or a panic (a nil pointer dereference).
Returned(v, e) == [value |-> v, err |-> e, panic |-> FALSE]
Panicked(v) == [value |-> v, err |-> NilErr, panic |-> TRUE]

\* convertToVulnerability(occ). occ.GetVulnerability() is nil when the
\* occurrence has no vulnerability details; GetPackageIssue() is nil-safe,
\* the field read vulnDetails.ShortDescription is not.
convertToVulnerability(occ) ==
    LET vulnDetails == occ.Vulnerability
        issues      == IF vulnDetails = Empty THEN <<>> ELSE vulnDetails.PackageIssue
        hasIssue    == Len(issues) > 0
    IN  IF vulnDetails = Empty THEN Panicked(ZeroVulnerability)
        ELSE Returned(
               [ID               |-> vulnDetails.ShortDescription,
                Severity         |-> convertSeverity(vulnDetails.Severity),
                Description      |-> occ.NoteName,
                PackageType      |-> IF hasIssue THEN issues[1].PackageType ELSE "",
                PackageName      |-> IF hasIssue THEN issues[1].AffectedPackage ELSE "",
                InstalledVersion |->
                    IF hasIssue /\ issues[1].AffectedVersion # Empty
                    THEN <<issues[1].AffectedVersion.Name, " (Kind: ",
                           issues[1].AffectedVersion.Kind, ")">>
                    ELSE Empty,
                FixedVersion     |->
                    IF hasIssue /\ issues[1].FixedVersion # Empty
                    THEN issues[1].FixedVersion.Name ELSE ""],
               NilErr)

filterBySeverity(vulns, min) ==
    IF min = "UNSPECIFIED" THEN vulns
    ELSE SelectSeq(vulns, LAMBDA v : SeverityLevel(v.Severity) >= SeverityLevel(min))

filterFixable(vulns) == SelectSeq(vulns, LAMBDA v : v.FixedVersion # "")

buildSummary(vulns) ==
    [TotalCount      |-> Len(vulns),
     CountBySeverity |->
         [sev \in {vulns[i].Severity : i \in 1..Len(vulns)} |->
             Cardinality({i \in 1..Len(vulns) : vulns[i].Severity = sev})],
     FixableCount    |-> Len(filterFixable(vulns))]

\* The loop of Analyze over what it.Next() gives, up to iterator.Done.
RECURSIVE AnalyzeLoop(_, _)
AnalyzeLoop(items, vulnerabilities) ==
    IF items = <<>> THEN Returned(vulnerabilities, NilErr)
    ELSE IF Head(items).err # NilErr
    THEN Returned(<<>>, Errorf("failed to list occurrences", <<>>, Head(items).err))
    ELSE Only({ IF c.panic THEN Panicked(<<>>)
                ELSE IF c.err # NilErr
                THEN AnalyzeLoop(Tail(items), vulnerabilities)
                ELSE AnalyzeLoop(Tail(items), Append(vulnerabilities, c.value)) :
                c \in {convertToVulnerability(Head(items).occ)} })

\* Analyze(ctx, req) on the occurrences the service lists for the image
\* (ScanTime is left out of the result).
Analyze(req, items) ==
    Only({ IF l.panic \/ l.err # NilErr THEN [l EXCEPT !.value = Empty]
           ELSE Only({ Returned([Vulnerabilities |-> filtered,
                                 Summary         |-> buildSummary(filtered)], NilErr) :
                       filtered \in { IF req.FixableOnly
                                      THEN filterFixable(filterBySeverity(l.value, req.MinSeverity))
                                      ELSE filterBySeverity(l.value, req.MinSeverity) } }) :
           l \in {AnalyzeLoop(items, <<>>)} })

\* longest list of occurrences
MaxOccurrences == 2

\* An occurrence with vulnerability details and one package issue.
Occurrence(id, sev, fixed) ==
    [NoteName      |-> "notes/" \o id,
     Vulnerability |->
        [ShortDescription |-> id,
         Severity         |-> sev,
         PackageIssue     |->
            <<[AffectedPackage |-> "openssl",
               PackageType     |-> "OS",
               AffectedVersion |-> [Name |-> "1.1.1", Kind |-> "NORMAL"],
               FixedVersion    |-> IF fixed THEN [Name |-> "1.1.1t"] ELSE Empty]>>]]

\* An occurrence with details and no package issue.
BareOccurrence ==
    [NoteName      |-> "notes/CVE-3",
     Vulnerability |-> [ShortDescription |-> "CVE-3", Severity |-> 5,
                        PackageIssue |-> <<>>]]

\* An occurrence whose details are nil.
NoDetails == [NoteName |-> "notes/EMPTY", Vulnerability |-> Empty]

Occurrences ==
    {Occurrence("CVE-1", 2, TRUE), Occurrence("CVE-2", 4, FALSE), BareOccurrence, NoDetails}

\* What it.Next() gives: an occurrence, or an error of the service.
OccurrenceItems ==
    {[occ |-> o, err |-> NilErr] : o \in Occurrences}
        \cup {[occ |-> NoDetails, err |-> ApiErr("ListOccurrences", <<>>)]}

AnalyzeRequests ==
    [MinSeverity : {"UNSPECIFIED", "HIGH"}, FixableOnly : BOOLEAN]

InitAnalyze ==
    /\ InitCall
    /\ \/ \E o \in Occurrences : call = [fn |-> "convertToVulnerability", arg |-> o]
       \/ \E req \in AnalyzeRequests : \E items \in SeqsUpTo(OccurrenceItems, MaxOccurrences) :
             call = [fn |-> "Analyze", arg |-> [req |-> req, items |-> items]]

\* convertToVulnerability(occ) returns or panics.
CallConvert ==
    /\ call.fn = "convertToVulnerability"
    /\ got = <<>>
    /\ got' = <<convertToVulnerability(call.arg)>>
    /\ UNCHANGED << call, resolverVars, scanVars >>

\* Analyze(ctx, req) returns or panics.
CallAnalyze ==
    /\ call.fn = "Analyze"
    /\ got = <<>>
    /\ got' = <<Analyze(call.arg.req, call.arg.items)>>
    /\ UNCHANGED << call, resolverVars, scanVars >>

NextAnalyze ==
    \/ CallConvert
    \/ CallAnalyze

SpecAnalyze == InitAnalyze /\ [][NextAnalyze]_vars

\* ------------------------------------------- scanRepository on its own
\* longest listing of one repository
MaxListing == 7

\* The kinds of entries of a listing: a version of app, a version of web,
\* an entry of app that has a tag and no digest.
EntryKinds == {"app", "web", "tag"}

\* The listing whose i-th entry is of kind kinds[i]: each entry has its own
\* digest, and the entries come newest first, as the request asks.
ListingOf(kinds) ==
    [images |-> [i \in 1..Len(kinds) |->
                   [Uri        |-> IF kinds[i] = "tag"
                                   THEN TagUri(1, "app", "t" \o ToString(i))
                                   ELSE DigestUri(1, kinds[i], HexAt(i)),
                    Tags       |-> <<"t" \o ToString(i)>>,
                    UpdateTime |-> Len(kinds) + 1 - i]],
     err    |-> NilErr]

InitScan ==
    /\ InitCall
    /\ \E kinds \in SeqsUpTo(EntryKinds, MaxListing) :
          call = [fn  |-> "scanRepository",
                  arg |-> [Name |-> RepoName(1), listing |-> ListingOf(kinds)]]

\* scanRepository(ctx, repoName) returns; got is the groups it had collected
\* when the listing ended, then what it returned.
CallScanRepository ==
    /\ call.fn = "scanRepository"
    /\ got = <<>>
    /\ \E r \in scanRepository(call.arg) :
          got' = <<ListLoop(call.arg.listing, 1, [grouped |-> <<>>, counts |-> <<>>]), r>>
    /\ UNCHANGED << call, resolverVars, scanVars >>

NextScan == CallScanRepository

SpecScan == InitScan /\ [][NextScan]_vars

\* ------------------------------------------------------------------ claims
\* The workers whose analysis call has started and not returned.
InFlight == {w \in Workers : workers[w].pc = "analyze"}

\* Scan is past wg.Wait().
Joined == pc \in {"export", "report", "done"}

\* The errors joined into e, in the order they were joined.
RECURSIVE Leaves(_)
Leaves(e) ==
    IF e = NilErr THEN <<>>
    ELSE IF e.kind # "join" THEN <<e>>
    ELSE IF Len(e.errs) = 1 THEN Leaves(e.errs[1])
    ELSE Leaves(e.errs[1]) \o Leaves(e.errs[2])

\* The recorded failures that come from an analysis / from the resolver.
AnalysisErrors == SelectSeq(Leaves(errs), LAMBDA e : e.msg = "analyzing")
ResolverErrors == SelectSeq(Leaves(errs), LAMBDA e : e.msg = "resolving image stream")

Succeeded == {w \in Workers : workers[w].pc \in {"release", "exit", "done"} /\ workers[w].err = NilErr}
Failed == {w \in Workers : workers[w].err # NilErr}

Range(f) == {f[i] : i \in DOMAIN f}

\* C1: with concurrency C in 1..255, the number of analysis calls started and
\* not yet returned never exceeds C, whatever the number of targets and the
\* order in which workers finish.
C1_InFlightAtMostConcurrency ==
    concurrency \in 1..255 => Cardinality(InFlight) <= concurrency

\* C1 witness: C = 2 analyses are in flight while a third target waits for a token.
C1_Witness ==
    /\ concurrency = 2
    /\ Cardinality(InFlight) = 2
    /\ pc = "acquire"
    /\ count = 3

\* C2: Export is not invoked, and the results are not read for export, before
\* every dispatched analysis has returned and recorded its outcome.
C2_ExportAfterEveryAnalysis ==
    (Joined \/ exportCalls # <<>>) =>
        /\ \A w \in Workers : workers[w].pc = "done"
        /\ Len(results) + Len(AnalysisErrors) = Len(workers)

\* C2 witness: Export has been called in a scan that ran two analyses at once.
C2_Witness ==
    /\ exportCalls # <<>>
    /\ Len(workers) >= 2
    /\ concurrency = 2

\* C3: when failures were recorded, the error Scan returns wraps the whole
\* accumulator, so every recorded failure reaches the caller.
C3_ReturnWrapsAccumulator ==
    (pc = "done" /\ errs # NilErr) =>
        /\ errs \in ErrTree(ret)
        /\ \A i \in 1..Len(Leaves(errs)) : Leaves(errs)[i] \in ErrTree(ret)

\* C4: the value Scan returns tells the outcomes apart; in particular what a
\* partially successful scan returns differs from what a scan with the same
\* recorded failures and no result returns.
C4_PartialDiffersFromNoResult ==
    (pc = "done" /\ results # <<>> /\ errs # NilErr /\ exportErr = NilErr) =>
        ret # ScanReturn(<<>>, errs, NilErr)

\* C5: with at least one success and at least one recorded failure, Export is
\* invoked with exactly the successful results before the partial-failure
\* error is returned, and the returned error is non-nil.
C5_PartialExportsThenReports ==
    (results # <<>> /\ errs # NilErr) =>
        /\ pc \in {"report", "done"} =>
             /\ exportCalls = <<results>>
             /\ Len(results) = Cardinality(Succeeded)
             /\ {r.Artifact : r \in Range(results)} = {workers[w].t.Artifact : w \in Succeeded}
        /\ pc = "done" => ret # NilErr

\* C5 witness: a scan with a success and a failure has returned the
\* partial-failure error.
C5_Witness ==
    /\ pc = "done"
    /\ results # <<>>
    /\ errs # NilErr
    /\ ret = Errorf("scan completed with partial errors", <<>>, errs)

\* C6: N >= 1 targets, no resolver error, every analysis and Export succeed:
\* Scan returns nil and Export was invoked once with N results, one per target.
C6_AllSucceed ==
    ( /\ pc = "done"
      /\ Len(TargetsYielded) >= 1
      /\ ErrorsYielded = <<>>
      /\ Failed = {}
      /\ exportErr = NilErr ) =>
        /\ ret = NilErr
        /\ Len(exportCalls) = 1
        /\ Len(exportCalls[1]) = Len(TargetsYielded)
        /\ {r.Artifact : r \in Range(exportCalls[1])}
             = {y.target.Artifact : y \in Range(TargetsYielded)}

\* C6 witness: three targets analysed two at a time, all exported, nil returned.
C6_Witness ==
    /\ pc = "done"
    /\ concurrency = 2
    /\ Len(TargetsYielded) = 3
    /\ ErrorsYielded = <<>>
    /\ Failed = {}
    /\ ret = NilErr
    /\ Len(exportCalls) = 1

\* C7: if every analysis fails (of at least one target), then at the join the
\* results are empty, Export is never invoked and Scan returns a non-nil error.
C7_AllFail ==
    (Joined /\ Len(workers) >= 1 /\ Failed = Workers) =>
        /\ results = <<>>
        /\ exportCalls = <<>>
        /\ pc = "done" => ret # NilErr

\* C7 witness: two analyses, both failed, and Scan has returned.
C7_Witness ==
    /\ pc = "done"
    /\ Len(workers) >= 2
    /\ Failed = Workers

\* C8: Export is invoked at most once and never with an empty collection; an
\* empty collection with no failure recorded returns nil without Export.
C8_ExportOnceNonEmpty ==
    /\ Len(exportCalls) <= 1
    /\ \A i \in 1..Len(exportCalls) : exportCalls[i] # <<>>
    /\ (pc = "done" /\ results = <<>> /\ errs = NilErr) =>
          (ret = NilErr /\ exportCalls = <<>>)

\* C8 witness: the resolver yielded nothing; Scan returned nil, no Export.
C8_Witness ==
    /\ pc = "done"
    /\ yielded = <<>>
    /\ results = <<>>
    /\ errs = NilErr
    /\ ret = NilErr
    /\ exportCalls = <<>>

\* The yielded pair the loop body has not finished with: 1 if it is a target
\* not yet dispatched / an error not yet recorded.
TargetInHand ==
    IF pc = "acquire" \/ (pc = "range" /\ rpc = "yielded" /\ item.err = NilErr)
    THEN 1 ELSE 0
ErrorInHand ==
    IF pc \in {"addError", "addErrorLocked"}
         \/ (pc = "range" /\ rpc = "yielded" /\ item.err # NilErr)
    THEN 1 ELSE 0

\* C9: an item yielded with an error is recorded once in the accumulator and
\* takes no token and starts no analysis: the analyses dispatched are as many
\* as the items yielded with a nil error, and the tokens held belong to them.
C9_ErrorItemsNotDispatched ==
    /\ Len(workers) = Len(TargetsYielded) - TargetInHand
    /\ count = Len(workers) + (IF pc = "acquire" THEN 1 ELSE 0)
    /\ sem = Cardinality({w \in Workers : workers[w].pc \notin {"exit", "done"}})
    /\ Len(ResolverErrors) = Len(ErrorsYielded) - ErrorInHand
    /\ \A i \in 1..Len(ResolverErrors) :
         ResolverErrors[i] = Errorf("resolving image stream", <<>>, ErrorsYielded[i].err)
    /\ \A w \in Workers : workers[w].t # ZeroTarget

\* C9 witness: a scan that met a resolver error and a target has returned.
C9_Witness ==
    /\ pc = "done"
    /\ Len(ErrorsYielded) >= 1
    /\ Len(workers) >= 1

\* The pair yielded for a failed repoIt.Next().
ListErrorItem ==
    [target |-> ZeroTarget,
     err    |-> Errorf("failed to list repositories", <<>>, ListReposErr)]

\* C10: when repoIt.Next() fails, exactly one item is yielded for it (the
\* empty target with the error) and the sequence ends: no further fetch, no
\* further item, whether the consumer continues or stops.
C10_ListErrorEndsSequence ==
    \A i \in 1..Len(fetchLog) :
        fetchLog[i] = "error" =>
            /\ i = Len(fetchLog)
            /\ yielded # <<>>
            /\ yielded[Len(yielded)] = ListErrorItem
            /\ Cardinality({j \in 1..Len(yielded) : yielded[j] = ListErrorItem}) = 1
            /\ rpc \in {"yielded", "returned"}
            /\ rpc = "yielded" => resume = "returned"

\* C10 witness: the first fetch failed, the consumer asked to continue, and
\* the sequence has ended with fetches to spare.
C10_Witness ==
    /\ fetchLog = <<"error">>
    /\ Len(fetchLog) < MaxRepos
    /\ yielded = <<ListErrorItem>>
    /\ rpc = "returned"
    /\ ~stopped

\* ------------------------------------------------- claims on the resolver
\* The position in the listing of the repository a yielded target is from.
RepoOf(y) ==
    CHOOSE i \in 1..Len(fetchLog) : y.target.Artifact.RepositoryID = <<RepoId(i)>>

\* The targets yielded from the i-th repository of the listing.
TargetsOfRepo(i) ==
    SelectSeq(yielded, LAMBDA y : y.err = NilErr
                                  /\ y.target.Artifact.RepositoryID = <<RepoId(i)>>)

\* The errors yielded for the i-th repository of the listing.
ErrorsOfRepo(i) ==
    SelectSeq(yielded, LAMBDA y : y.err # NilErr /\ y.err.arg = RepoName(i))

\* The entries the registry lists for the i-th repository that carry a
\* digest: the versions of its images.
VersionsOf(i) ==
    SelectSeq(ImagesOf(i, fetchLog[i]).images,
              LAMBDA img : /\ ParseArtifactURI(img.Uri).err = NilErr
                           /\ ParseArtifactURI(img.Uri).ref.Digest # Empty)

\* The names of the images of the i-th repository.
ImageNamesOf(i) == {ParseArtifactURI(v.Uri).ref.ImageName : v \in Range(VersionsOf(i))}

\* The repositories whose scan fails.
ScanFailKinds == {"broken", "invalid"}

\* scanRepository has returned for the i-th repository of the listing.
Scanned(i) == i < Len(fetchLog) \/ rpc # "scan"

\* Everything AllLatestImages does for the i-th repository is over, and the
\* consumer has not stopped it.
RepoDone(i) ==
    /\ ~stopped
    /\ i <= Len(fetchLog)
    /\ (i < Len(fetchLog) \/ rpc \notin {"scan", "yielded"})

\* C11: a repository whose scan fails yields exactly one item, an error with
\* the empty target and no target of that repository; the sequence then goes
\* on to the next repository, whose targets are yielded.
C11_ScanErrorIsolated ==
    /\ \A i \in 1..Len(fetchLog) :
          (fetchLog[i] \in ScanFailKinds /\ Scanned(i)) =>
            /\ TargetsOfRepo(i) = <<>>
            /\ Len(ErrorsOfRepo(i)) = 1
            /\ ErrorsOfRepo(i)[1].target = ZeroTarget
            /\ ErrorsOfRepo(i)[1].err.kind = "wrap"
            /\ ErrorsOfRepo(i)[1].err.msg = "failed to scan repo"
            /\ (i = Len(fetchLog) /\ rpc = "yielded") => resume = "next"
            /\ (RepoDone(i) /\ i = Len(fetchLog)) => rpc = "next"
            /\ (RepoDone(i + 1) /\ fetchLog[i + 1] \notin {"done", "error"} \cup ScanFailKinds) =>
                  {y.target.Artifact.ImageName : y \in Range(TargetsOfRepo(i + 1))}
                      = ImageNamesOf(i + 1)
    /\ (rpc = "returned" /\ ~stopped) =>
          (fetchLog # <<>> /\ fetchLog[Len(fetchLog)] \in {"done", "error"})

\* C11 witness: the first repository failed to scan, the second yielded both
\* of its targets.
C11_Witness ==
    /\ fetchLog = <<"broken", "multi">>
    /\ Len(yielded) = 3
    /\ yielded[1].err # NilErr
    /\ Len(TargetsOfRepo(2)) = 2
    /\ rpc = "next"
    /\ ~stopped

\* C12: once yield has returned false, at a target or at an error item,
\* AllLatestImages has returned: no repository is fetched or scanned and
\* nothing is yielded, in that step or later.
C12_StopEndsAllWork ==
    /\ [](stopped => rpc = "returned")
    /\ [][stopped' => UNCHANGED << fetchLog, yielded >>]_vars

\* C12 witness: the consumer stopped at the first of two targets of a
\* repository, with repositories left to fetch.
C12_Witness ==
    /\ stopped
    /\ item.err = NilErr
    /\ buffer # <<>>
    /\ Len(fetchLog) < MaxRepos
    /\ rpc = "returned"

\* C13: no two targets yielded in one pass are of the same image name of the
\* same repository (so no repository is scanned twice, and each image name
\* of it gives at most one target).
C13_OneTargetPerImage ==
    /\ \A j, k \in 1..Len(TargetsYielded) :
          ( /\ j # k
            /\ TargetsYielded[j].target.Artifact.RepositoryID
                 = TargetsYielded[k].target.Artifact.RepositoryID ) =>
               TargetsYielded[j].target.Artifact.ImageName
                 # TargetsYielded[k].target.Artifact.ImageName
    /\ \A i \in 1..Len(fetchLog) :
          fetchLog[i] \notin {"done", "error"} =>
             /\ Len(TargetsOfRepo(i)) <= Cardinality(ImageNamesOf(i))
             /\ Len(ErrorsOfRepo(i)) <= 1

\* C13 witness: two repositories holding the same image names were scanned
\* and every target of both was yielded (the second has two versions of app).
C13_Witness ==
    /\ fetchLog = <<"single", "multi">>
    /\ Len(TargetsYielded) = 3
    /\ rpc = "next"

\* A digest: sha256: and 64 hexadecimal characters.
IsSha256(d) == Len(d) = 3 /\ d[1] = "sha256" /\ d[2] = ":" /\ d[3] \in Hex64

\* C14: every target yielded with a nil error carries a digest, and an image
\* of which no listed entry has a digest yields no target.
C14_TargetsCarryDigest ==
    \A j \in 1..Len(TargetsYielded) :
        /\ TargetsYielded[j].target.Artifact.Digest # Empty
        /\ IsSha256(TargetsYielded[j].target.Artifact.Digest)
        /\ TargetsYielded[j].target.Artifact.ImageName
              \in ImageNamesOf(RepoOf(TargetsYielded[j]))

\* C14 witness: a repository with an entry without digest among its entries
\* has yielded its targets, and one whose only entry has no digest has
\* yielded nothing.
C14_Witness ==
    /\ fetchLog = <<"multi", "tagonly">>
    /\ Len(TargetsYielded) = 2
    /\ rpc = "next"
    /\ ~stopped

\* ----------------------------------------------- claims on selectBestDigest
\* selectBestDigest has returned for the list call.arg.
Selected == call.fn = "selectBestDigest" /\ got # <<>>

\* The positions of the candidates that carry the tag "latest".
LatestAt(cs) == {i \in 1..Len(cs) : \E k \in 1..Len(cs[i].Tags) : cs[i].Tags[k] = "latest"}

\* The least element of a non-empty set of positions.
First(S) == CHOOSE i \in S : \A j \in S : i <= j

\* The positions of the candidates whose update time is the maximum.
NewestAt(cs) == {i \in 1..Len(cs) : \A j \in 1..Len(cs) : cs[j].UpdateTime <= cs[i].UpdateTime}

\* C15: when some candidate carries the tag "latest", selectBestDigest
\* returns the first such candidate in list order, whatever the update times.
C15_FirstLatestWins ==
    (Selected /\ LatestAt(call.arg) # {}) =>
        got[1] = call.arg[First(LatestAt(call.arg))]

\* C15 witness: the newest candidate has no "latest" tag, the second and the
\* third carry it, the third being the newer: the second is returned.
C15_Witness ==
    /\ Selected
    /\ Len(call.arg) = 3
    /\ LatestAt(call.arg) = {2, 3}
    /\ call.arg[1].UpdateTime > call.arg[3].UpdateTime
    /\ call.arg[3].UpdateTime > call.arg[2].UpdateTime
    /\ got[1] = call.arg[2]

\* C16: with no "latest" tag in a non-empty list, selectBestDigest returns
\* the earliest candidate among those with the maximum update time; on the
\* empty list it returns the zero candidate.
C16_NewestFirstOnTies ==
    (Selected /\ LatestAt(call.arg) = {}) =>
        IF call.arg = <<>>
        THEN got[1] = ZeroCandidate
        ELSE /\ got[1] = call.arg[First(NewestAt(call.arg))]
             /\ \A j \in 1..Len(call.arg) : call.arg[j].UpdateTime <= got[1].UpdateTime

\* C16 witness: three candidates without "latest", the second and the third
\* share the maximum update time: the second is returned.
C16_Witness ==
    /\ Selected
    /\ Len(call.arg) = 3
    /\ LatestAt(call.arg) = {}
    /\ NewestAt(call.arg) = {2, 3}
    /\ got[1] = call.arg[2]

\* The versions of the image of a yielded target: the listed entries with
\* that image name.
VersionsOfImage(y) ==
    SelectSeq(VersionsOf(RepoOf(y)),
              LAMBDA v : ParseArtifactURI(v.Uri).ref.ImageName = y.target.Artifact.ImageName)

\* C17: the target yielded for an image is its version tagged "latest" if a
\* listed version carries that tag, else its listed version with the most
\* recent update time, however many versions are listed and wherever the
\* tagged one stands.
C17_LatestOfAllListed ==
    \A j \in 1..Len(TargetsYielded) :
        LET y  == TargetsYielded[j]
            vs == VersionsOfImage(y)
        IN  IF LatestAt(vs) # {}
            THEN \E i \in LatestAt(vs) : y.target.URI = vs[i].Uri
            ELSE \E i \in NewestAt(vs) : y.target.URI = vs[i].Uri

\* ------------------------------------------- claims on ParseArtifactURI
\* A reference with only a tag or only a digest set.
TagOrDigestOnly(a) == (a.Tag = Empty) # (a.Digest = Empty)

\* C18: for a reference with only a tag or only a digest, parsing what
\* String() renders succeeds and gives back an equal reference.
C18_RenderParseRoundTrip ==
    (call.fn = "String" /\ Len(got) = 2 /\ TagOrDigestOnly(call.arg)) =>
        /\ got[2].err = NilErr
        /\ got[2].ref = call.arg

\* C18 witness: a digest-only reference with a nested image name went
\* through String() and ParseArtifactURI.
C18_Witness ==
    /\ call.fn = "String"
    /\ Len(got) = 2
    /\ call.arg.Tag = Empty
    /\ call.arg.Digest = <<"sha256", ":", "Xf">>
    /\ call.arg.ImageName = <<"n", "/", "a">>
    /\ got[1] = <<"H", "/", "p", "/", "r", "/", "n", "/", "a", "@", "sha256", ":", "Xf">>
    /\ got[2].ref = call.arg

\* The number of "/" in a string.
SlashCount(uri) == Cardinality({i \in 1..Len(uri) : uri[i] = "/"})

\* Fewer path segments than host/project/repository/image.
FewSegments(uri) == SlashCount(uri) < 3

\* The part after "@" has an algorithm prefix that is not sha256.
OtherAlgorithm(uri) ==
    \E i \in 1..Len(uri) :
        /\ uri[i] = "@"
        /\ i + 2 <= Len(uri)
        /\ uri[i + 2] = ":"
        /\ uri[i + 1] # "sha256"

\* The string ends with a sha256 digest and holds no "@".
DigestWithoutAt(uri) ==
    /\ \A i \in 1..Len(uri) : uri[i] # "@"
    /\ Len(uri) >= 3
    /\ IsSha256(SubSeq(uri, Len(uri) - 2, Len(uri)))

\* C19: ParseArtifactURI returns an error for a string with too few path
\* segments, for one whose digest has a prefix other than sha256:, and for
\* one where a digest was meant and the "@" is missing.
C19_ParseRejects ==
    ( /\ call.fn = "ParseArtifactURI"
      /\ got # <<>>
      /\ (FewSegments(call.arg) \/ OtherAlgorithm(call.arg) \/ DigestWithoutAt(call.arg)) ) =>
        got[1].err # NilErr

\* ------------------------------------------------- claims on the dispatch
\* The workers whose analyzeTarget has left the collector.
Recorded == {w \in Workers : workers[w].pc \in {"release", "exit", "done"}}

\* The entries worker w has in the results / in the accumulator.
ResultsOf(w) == {k \in 1..Len(results) : results[k] = AnalyzeResult(workers[w].t)}
ErrorsOf(w) ==
    {k \in 1..Len(AnalysisErrors) :
        AnalysisErrors[k] = Errorf("analyzing", workers[w].t.URI, workers[w].err)}

\* C20: the targets yielded with a nil error are dispatched one analysis
\* each, in order, none twice and none skipped; an analysis that has
\* returned leaves exactly one entry, a result or a wrapped error; at the
\* join results plus analysis errors are as many as the targets dispatched.
C20_OneEntryPerTarget ==
    /\ Len(workers) <= Len(TargetsYielded)
    /\ \A w \in Workers : workers[w].t = TargetsYielded[w].target
    /\ \A w \in Workers \ Recorded : ResultsOf(w) = {} /\ ErrorsOf(w) = {}
    /\ \A w \in Recorded :
          IF workers[w].err = NilErr
          THEN Cardinality(ResultsOf(w)) = 1 /\ ErrorsOf(w) = {}
          ELSE Cardinality(ErrorsOf(w)) = 1 /\ ResultsOf(w) = {}
    /\ Len(results) + Len(AnalysisErrors) = Cardinality(Recorded)
    /\ Joined =>
          /\ Len(workers) = Len(TargetsYielded)
          /\ count = Len(TargetsYielded)
          /\ Recorded = Workers

\* C20 witness: three targets analysed two at a time, one analysis failed,
\* and Scan is past the join.
C20_Witness ==
    /\ Joined
    /\ concurrency = 2
    /\ Len(TargetsYielded) = 3
    /\ Cardinality(Failed) = 1
    /\ Len(results) = 2
    /\ Len(AnalysisErrors) = 1

\* ---------------------------------------------- claims on termination
\* The workers whose Analyze call observed the cancelled context.
Cancelled == {w \in Workers : workers[w].err = AnalyzeCancelledError}

\* The tokens in sem are those of the workers that have not ended.
TokensHeld == sem = Cardinality({w \in Workers : workers[w].pc \notin {"exit", "done"}})

\* C22: an in-flight analysis that observes the cancellation returns an
\* error, which is recorded in the accumulator; its token is given back;
\* Scan does not block: it passes the join and returns a non-nil error.
C22_CancellationRecorded ==
    /\ [](\A w \in Cancelled :
            /\ ResultsOf(w) = {}
            /\ w \in Recorded => Cardinality(ErrorsOf(w)) = 1)
    /\ []TokensHeld
    /\ []((pc = "done" /\ Cancelled # {}) => (ret # NilErr /\ sem = 0))
    /\ (Cancelled # {}) ~> (pc = "done")

\* C22 witness: two analyses were in flight together, both observed the
\* cancellation, and Scan has returned its error.
C22_Witness ==
    /\ pc = "done"
    /\ concurrency = 2
    /\ Cardinality(Cancelled) = 2
    /\ sem = 0
    /\ ret = Errorf("scan completed with partial errors", <<>>, errs)

\* C29: with C >= 1, a finite listing and analyses that return, Scan
\* returns; when it has returned no token is held and no worker runs.
C29_ScanTerminates ==
    /\ (concurrency >= 1) ~> (pc = "done")
    /\ [](pc = "done" => (sem = 0 /\ wg = 0 /\ \A w \in Workers : workers[w].pc = "done"))

\* C29 witness: with one token, two analyses ran one after the other, one
\* failed, and Scan has returned with the token free.
C29_Witness ==
    /\ pc = "done"
    /\ concurrency = 1
    /\ Len(workers) = 2
    /\ Cardinality(Failed) = 1
    /\ sem = 0
    /\ wg = 0

\* ------------------------------------------------ claims on configuration
\* The scanners built so far: by NewScanner called with options, or by run.
Scanners ==
    { got[i].scanner : i \in { j \in 1..Len(got) :
          /\ \/ call.fn = "NewScanner"
             \/ call.fn = "run" /\ j = 2
          /\ got[j].err = NilErr
          /\ got[j].scanner # Empty } }

\* An option or a flag of the call sets the concurrency.
Configured ==
    \/ /\ call.fn = "NewScanner"
       /\ \E i \in 1..Len(call.arg.opts) : call.arg.opts[i].opt = "WithConcurrency"
    \/ /\ call.fn = "run"
       /\ \E i \in 1..Len(call.arg.args) : call.arg.args[i].name = "c"

\* C21: the concurrency of a built scanner is within 1..255, and is 5 when
\* neither an option nor a flag configured it.
C21_ConcurrencyInRange ==
    \A sc \in Scanners :
        /\ sc.concurrency \in 1..MaxUint8
        /\ ~Configured => sc.concurrency = DefaultConcurrency

\* ---------------------------------------------------- claims on Analyze
\* The occurrences of the listing that have vulnerability details.
WithDetails(items) == SelectSeq(items, LAMBDA it : it.occ.Vulnerability # Empty)

\* C23: for an occurrence without vulnerability details
\* convertToVulnerability returns an error and the zero Vulnerability; Analyze
\* on a listing without service errors returns, without panicking, what it
\* returns for the listing with those occurrences taken out.
C23_MissingDetailsSkipped ==
    /\ (call.fn = "convertToVulnerability" /\ got # <<>> /\ call.arg.Vulnerability = Empty)
          => (/\ ~got[1].panic
              /\ got[1].err # NilErr
              /\ got[1].value = ZeroVulnerability)
    /\ (/\ call.fn = "Analyze"
        /\ got # <<>>
        /\ \A i \in 1..Len(call.arg.items) : call.arg.items[i].err = NilErr)
          => (/\ ~got[1].panic
              /\ got[1].err = NilErr
              /\ got[1] = Analyze(call.arg.req, WithDetails(call.arg.items)))

\* ------------------------------------------- claims on scanRepository
\* C24: a repository that lists an entry whose URI does not parse yields no
\* error item, and yields the targets of its other images.
C24_ParseFailureSkipped ==
    \A i \in 1..Len(fetchLog) :
        (fetchLog[i] = "invalid" /\ RepoDone(i)) =>
            /\ ErrorsOfRepo(i) = <<>>
            /\ {y.target.Artifact.ImageName : y \in Range(TargetsOfRepo(i))}
                  = ImageNamesOf(i)

\* The entries of the listing given to scanRepository.
Listed == call.arg.listing.images

\* The entries of the listing that carry a digest and are of the image name.
DigestEntries(name) ==
    SelectSeq(Listed, LAMBDA img : /\ ParseArtifactURI(img.Uri).err = NilErr
                                   /\ ParseArtifactURI(img.Uri).ref.Digest # Empty
                                   /\ ParseArtifactURI(img.Uri).ref.ImageName = name)

\* The entries of the listing without a digest.
NoDigestEntries ==
    SelectSeq(Listed, LAMBDA img : /\ ParseArtifactURI(img.Uri).err = NilErr
                                   /\ ParseArtifactURI(img.Uri).ref.Digest = Empty)

\* The image names of the listing.
ListedNames == {ParseArtifactURI(Listed[i].Uri).ref.ImageName : i \in 1..Len(Listed)}

\* The candidate made of an entry.
CandidateOf(img) ==
    [Digest     |-> ParseArtifactURI(img.Uri).ref.Digest,
     Tags       |-> img.Tags,
     UpdateTime |-> img.UpdateTime,
     URI        |-> img.Uri]

\* The first n elements of s, all of s when it has fewer.
FirstN(s, n) == SubSeq(s, 1, IF Len(s) < n THEN Len(s) ELSE n)

\* The group of an image name, empty when there is none.
GroupOf(grouped, name) == IF name \in DOMAIN grouped THEN grouped[name] ELSE <<>>

\* C25: the group of each image name is the first min(n, 5) digest-bearing
\* entries of that name, in listing order; no group holds more than 5.
C25_FirstFiveRetained ==
    (call.fn = "scanRepository" /\ got # <<>>) =>
        /\ got[1].err = NilErr
        /\ DOMAIN got[1].grouped = {name \in ListedNames : DigestEntries(name) # <<>>}
        /\ \A name \in DOMAIN got[1].grouped :
              /\ Len(got[1].grouped[name]) <= MaxCandidates
              /\ got[1].grouped[name]
                    = [k \in 1..Len(FirstN(DigestEntries(name), MaxCandidates)) |->
                          CandidateOf(DigestEntries(name)[k])]

\* C25 witness: six versions of app were listed, then one of web: app has
\* the first five, web its one.
C25_Witness ==
    /\ call.fn = "scanRepository"
    /\ got # <<>>
    /\ Len(DigestEntries(<<"app">>)) = MaxCandidates + 1
    /\ ParseArtifactURI(Listed[Len(Listed)].Uri).ref.ImageName = <<"web">>
    /\ Len(GroupOf(got[1].grouped, <<"app">>)) = MaxCandidates
    /\ Len(GroupOf(got[1].grouped, <<"web">>)) = 1

\* C26: with entries without a digest in the listing, the scan returns no
\* error; no such entry is in a group; each group has as many candidates as
\* its name has digest-bearing entries, up to the cap; every image name
\* with a digest-bearing entry has its target.
C26_NoDigestSkipped ==
    (call.fn = "scanRepository" /\ got # <<>> /\ NoDigestEntries # <<>>) =>
        /\ got[1].err = NilErr
        /\ got[2].err = NilErr
        /\ \A name \in ListedNames :
              /\ \A k \in 1..Len(GroupOf(got[1].grouped, name)) :
                    /\ got[1].grouped[name][k].Digest # Empty
                    /\ got[1].grouped[name][k].URI \notin {e.Uri : e \in Range(NoDigestEntries)}
              /\ Len(GroupOf(got[1].grouped, name))
                    = Len(FirstN(DigestEntries(name), MaxCandidates))
        /\ {t.Artifact.ImageName : t \in Range(got[2].targets)}
              = {name \in ListedNames : DigestEntries(name) # <<>>}

\* C26 witness: two entries of app without a digest came before five
\* versions of app: all five are retained and app has its target.
C26_Witness ==
    /\ call.fn = "scanRepository"
    /\ got # <<>>
    /\ Len(NoDigestEntries) = 2
    /\ ParseArtifactURI(Listed[1].Uri).ref.Digest = Empty
    /\ ParseArtifactURI(Listed[2].Uri).ref.Digest = Empty
    /\ Len(GroupOf(got[1].grouped, <<"app">>)) = MaxCandidates
    /\ Len(got[2].targets) = 1

\* ------------------------------------------------ claims on the collector
\* Who is between c.mu.Lock() and the deferred Unlock.
InCriticalSection ==
    {w \in Workers : workers[w].pc = "locked"}
        \cup (IF pc = "addErrorLocked" THEN {Main} ELSE {})

\* C27: at most one of the workers and the producer loop is inside
\* addResult / addError, and it is the holder of the lock; the entries of
\* results and of the accumulator are as many as the calls that have ended.
C27_OneCollectorLock ==
    /\ Cardinality(InCriticalSection) <= 1
    /\ InCriticalSection = (IF mu = Free THEN {} ELSE {mu})
    /\ Len(results) + Len(Leaves(errs))
          = Cardinality(Recorded) + Len(ErrorsYielded) - ErrorInHand

\* C27 witness: a worker holds the lock while the producer loop is at
\* addError with a resolver error and another worker is at the lock too.
C27_Witness ==
    /\ pc = "addError"
    /\ mu \in Workers
    /\ \E w \in Workers : w # mu /\ workers[w].pc = "add"

\* C28: the resolver fetches a repository only when every target yielded so
\* far has been dispatched; in a step taken while the producer is at the
\* send with all tokens held, the producer stays there: no dispatch, no
\* step of the resolver.
C28_DispatchAsDiscovered ==
    /\ [][fetchLog' # fetchLog => Len(workers) = Len(TargetsYielded)]_vars
    /\ [][(pc = "acquire" /\ sem >= concurrency) =>
            (pc' = "acquire" /\ Len(workers') = Len(workers) /\ UNCHANGED resolverVars)]_vars

\* C28 witness: with one token, held by a running analysis, the producer
\* is at the send with the second target of the repository in hand and
\* a repository yet to fetch.
C28_Witness ==
    /\ concurrency = 1
    /\ pc = "acquire"
    /\ sem = 1
    /\ Len(workers) = 1
    /\ Len(fetchLog) = 1
    /\ rpc = "yielded"

\* What Analyze returned for each target dispatched.
Outcomes == [w \in Workers |-> workers[w].err]

\* C30: with concurrency 1 at most one analysis goes on at a time, and once
\* the join is passed the results, their count and what Export is given
\* are those of executeScan on the same yielded pairs and outcomes.
C30_SequentialAtOne ==
    concurrency = 1 =>
        /\ Cardinality({w \in Workers : workers[w].pc \notin {"exit", "done"}}) <= 1
        /\ \A w \in Workers : workers[w].pc \notin {"exit", "done"} => w = Len(workers)
        /\ pc \in {"export", "report", "done"} =>
              /\ results = executeScan(yielded, Outcomes).results
              /\ count = executeScan(yielded, Outcomes).count
        /\ pc \in {"report", "done"} =>
              exportCalls = (IF Len(executeScan(yielded, Outcomes).results) > 0
                             THEN <<executeScan(yielded, Outcomes).results>>
                             ELSE <<>>)

\* C30 witness: with concurrency 1, three targets were analyzed, one
\* failed, and the two results were exported.
C30_Witness ==
    /\ concurrency = 1
    /\ pc = "done"
    /\ Len(workers) = 3
    /\ Len(results) = 2
    /\ exportCalls = <<results>>
====
